---- MODULE Spec2Model ----
(***************************************************************************)
(* Signal execution pipeline of the Telegram trading bot:                  *)
(* submit_position_if_enabled (internal/services/executor.py), the order   *)
(* sizing engine (internal/services/order_sizing.py), execute_signal       *)
(* (internal/services/exchange.py), the XT and Bitunix adapters and the    *)
(* positions_submitted repository (internal/repositories/positions.py).    *)
(* The message handler on_new_message (api/telegram/handlers.py) and the    *)
(* two extraction functions (internal/services/signal_extraction.py) that  *)
(* call submit_position_if_enabled are modelled on top of it.              *)
(*                                                                         *)
(* Spec: calls of submit_position_if_enabled with every signal, price and  *)
(* balance.  RetrySpec: the same calls on valid signals with every kind of *)
(* answer of the venue.  HandlerSpec: events delivered to the handler.     *)
(* WindowSpec: the window read and the combined text over small message    *)
(* tables.  DryRunSpec: calls with auto-execution disabled.  LoopSpec: the *)
(* handler coroutines and the heartbeat task on the asyncio event loop.    *)
(*                                                                         *)
(* Conventions.  An Optional[T] value is a sequence of length <= 1: None   *)
(* is <<>> and a present value x is <<x>>.  A Python str whose characters  *)
(* matter (token, symbol) is a sequence of one-character strings.  A float *)
(* amount of quote currency or a price is an integer; a quantity is an     *)
(* exact fraction [num, den] (float rounding is not modelled).             *)
(***************************************************************************)
EXTENDS Integers, Sequences, FiniteSets, TLC

\* ------------------------------------------------------------------ bounds
\* Total number of calls of submit_position_if_enabled in one behaviour.
MaxDeliveries == 2
\* Total number of messages delivered to on_new_message in one behaviour.
MaxMessages == 2

\* ------------------------------------------------------- Optional helpers
None == <<>>
Some(x) == <<x>>
IsNone(o) == o = <<>>
\* Python truthiness of an Optional[float]: None and 0.0 are falsy.
TruthyNum(o) == o # <<>> /\ o[1] # 0
\* Python truthiness of an Optional[str] / Optional[list]: None and empty are falsy.
TruthySeq(o) == o # <<>> /\ o[1] # <<>>

\* ------------------------------------------------------------ characters
UpperChar(c) ==
  CASE c = "b" -> "B"
    [] c = "t" -> "T"
    [] c = "c" -> "C"
    [] OTHER -> c
AlNumChars == {"A", "B", "C", "D", "G", "L", "O", "P", "S", "T", "U", "X",
               "b", "c", "t", "1"}
\* str.upper()
Upper(s) == [i \in 1..Len(s) |-> UpperChar(s[i])]
\* ''.join(ch for ch in s if ch.isalnum())
RECURSIVE OnlyAlNum(_)
OnlyAlNum(s) ==
  IF s = <<>> THEN <<>>
  ELSE IF Head(s) \in AlNumChars THEN <<Head(s)>> \o OnlyAlNum(Tail(s))
       ELSE OnlyAlNum(Tail(s))
\* str.endswith
EndsWith(s, suffix) ==
  /\ Len(suffix) <= Len(s)
  /\ SubSeq(s, Len(s) - Len(suffix) + 1, Len(s)) = suffix

\* str.lower() on the position types the inference service may return
LowerPos(p) ==
  CASE p = "LONG" -> "long"
    [] p = "Long" -> "long"
    [] p = "SHORT" -> "short"
    [] p = "Short" -> "short"
    [] p = "Hold" -> "hold"
    [] OTHER -> p

\* ----------------------------------------------------------- configuration
\* cfg.order_quote (default "USDT")
ORDER_QUOTE == <<"U", "S", "D", "T">>
\* cfg.max_price_deviation_pct (default 0.02) as the fraction MaxDevNum/MaxDevDen
MaxDevNum == 2
MaxDevDen == 100
\* MIN_BUDGET_USD of determine_order_quantity
MIN_BUDGET_USD == 10
\* the 0.9 of "budget = free_quote * 0.9", as BudgetNum/BudgetDen
BudgetNum == 9
BudgetDen == 10
\* cfg.order_notional (default 10)
ORDER_NOTIONAL == 10
\* retry limit of execute_signal ("attempts < 3")
MAX_ATTEMPTS == 3

\* The fields of Config read by the pipeline.  creds_ok: api key and secret
\* of the selected venue are set; proxy_ok: PROXY_TYPE/HOST/PORT are set.
Configs ==
  [exchange : {"xt", "bitunix"},
   creds_ok : BOOLEAN,
   proxy_ok : BOOLEAN,
   enable_auto_execution : BOOLEAN]

\* The configurations of a run.  PROXY_* is read by the Bitunix adapter only
\* (BitunixClient.__init__), so for xt one value stands for both.
RunConfigs == { c \in Configs : c.exchange = "xt" => c.proxy_ok }

\* ------------------------------------------------------------------ inputs
Keys == {<<1, 1>>, <<1, 2>>}

TOK_EMPTY == <<>>
TOK_B == <<"B">>
TOK_BTC == <<"b", "t", "c">>
TOK_GOLD == <<"G", "O", "L", "D">>
TOK_LONG16 == <<"A", "A", "A", "A", "A", "A", "A", "A",
                "A", "A", "A", "A", "A", "A", "A", "A">>

Sig(tok, pos, entry, lev, sls, tps) ==
  [token |-> tok, position_type |-> pos, entry_price |-> entry,
   leverage |-> lev, stop_losses |-> sls, take_profits |-> tps]

\* TradeSignal values handed to submit_position_if_enabled
Signals ==
  { Sig(Some(TOK_BTC), Some("long"), Some(100), Some(10), <<90, 95>>, <<110, 120>>),
    Sig(Some(TOK_BTC), Some("SHORT"), None, None, <<>>, <<>>),
    Sig(Some(TOK_GOLD), Some("long"), Some(100), None, <<>>, <<>>),
    Sig(Some(TOK_EMPTY), Some("long"), Some(100), None, <<>>, <<>>),
    Sig(None, Some("long"), None, None, <<>>, <<>>),
    Sig(Some(TOK_B), Some("long"), Some(100), None, <<>>, <<>>),
    Sig(Some(TOK_LONG16), Some("short"), None, None, <<>>, <<>>),
    Sig(Some(TOK_BTC), None, Some(100), None, <<>>, <<>>),
    Sig(Some(TOK_BTC), Some("Hold"), Some(100), Some(10), <<>>, <<>>) }

\* Values fetch_price may return (None: the call failed)
PriceVals == {None, Some(0), Some(100), Some(105)}
\* Values get_available_balance may return (None: the call failed)
BalanceVals == {None, Some(0), Some(5), Some(11), Some(12)}

\* Error strings of a failed order call, as sequences of words
ERR_NETWORK == <<"NetworkError", "connection reset">>
ERR_REJECTED == <<"InsufficientFunds", "order rejected">>
\* an order rejected by the venue whose message text names a timeout
ERR_REJECTED_TEXT == <<"InvalidOrder", "order rejected after", "RequestTimeout">>
OrderErrors == {ERR_NETWORK, ERR_REJECTED}

\* -------------------------------------------------------- pure functions
\* Python truthiness of an Optional[str] held as an atomic string
TruthyAtom(o) == o # <<>> /\ o[1] # ""

Abs(x) == IF x < 0 THEN 0 - x ELSE x

ZeroQty == [num |-> 0, den |-> 1]
QtyPositive(q) == q.num > 0
\* a / b = c / d for fractions with positive denominators
QtyEq(q, r) == q.num * r.den = r.num * q.den

compute_order_amount(notional, price) ==
  IF price <= 0 THEN ZeroQty
  ELSE [num |-> notional.num, den |-> notional.den * price]

\* price_deviation_too_high rejecting a deviation equal to the limit
price_deviation_at_limit_too_high(detected_entry, current_price) ==
  IF \/ ~TruthyNum(detected_entry)
     \/ ~TruthyNum(current_price)
     \/ detected_entry[1] <= 0
     \/ current_price[1] <= 0
  THEN FALSE
  ELSE Abs(current_price[1] - detected_entry[1]) * MaxDevDen
         >= MaxDevNum * detected_entry[1]

price_deviation_too_high(detected_entry, current_price) ==
  IF \/ ~TruthyNum(detected_entry)
     \/ ~TruthyNum(current_price)
     \/ detected_entry[1] <= 0
     \/ current_price[1] <= 0
  THEN FALSE
  ELSE Abs(current_price[1] - detected_entry[1]) * MaxDevDen
         > MaxDevNum * detected_entry[1]

\* is_anomalous_signal comparing the position type without lower()
is_anomalous_signal_case_sensitive(token, position_type) ==
  IF ~TruthySeq(token) \/ ~TruthyAtom(position_type) THEN TRUE
  ELSE IF position_type[1] \notin {"long", "short"} THEN TRUE
  ELSE IF Len(token[1]) < 2 \/ Len(token[1]) > 15 THEN TRUE
  ELSE FALSE

is_anomalous_signal(token, position_type) ==
  IF ~TruthySeq(token) \/ ~TruthyAtom(position_type) THEN TRUE
  ELSE IF LowerPos(position_type[1]) \notin {"long", "short"} THEN TRUE
  ELSE IF Len(token[1]) < 2 \/ Len(token[1]) > 15 THEN TRUE
  ELSE FALSE

SAFE_RETRY_ERRORS ==
  {"NetworkError", "DDoSProtection", "RequestTimeout",
   "ExchangeNotAvailable", "RateLimitExceeded"}

\* any(code in error_msg for code in SAFE_RETRY_ERRORS)
is_safe_retry(error_msg) ==
  IF ~TruthySeq(error_msg) THEN FALSE
  ELSE \E i \in 1..Len(error_msg[1]) : error_msg[1][i] \in SAFE_RETRY_ERRORS

\* (x or "") for an Optional[str] of characters
OrEmpty(o) == IF o = <<>> THEN <<>> ELSE o[1]
\* (position_type or "").lower()
PosLower(position_type) ==
  IF position_type = <<>> THEN "" ELSE LowerPos(position_type[1])

\* XTClient._normalize_token_for_crypto / BitunixClient._normalize_token_for_crypto
normalize_token_for_crypto(token) ==
  LET base == OnlyAlNum(Upper(token)) IN
  IF base \in { <<"G", "O", "L", "D">>, <<"X", "A", "U">>,
                <<"X", "A", "U", "U", "S", "D">>,
                <<"X", "A", "U", "U", "S", "D", "T">> }
  THEN <<"P", "A", "X", "G">>
  ELSE base

xt_swap_symbol(token, quote) ==
  normalize_token_for_crypto(token) \o <<"/">> \o Upper(quote) \o <<":">> \o Upper(quote)

bitunix_swap_symbol(token, quote) ==
  LET base == normalize_token_for_crypto(token) IN
  IF EndsWith(base, Upper(quote)) THEN base ELSE base \o Upper(quote)

symbol_pair_bitunix(token, quote) ==
  LET base == OnlyAlNum(Upper(normalize_token_for_crypto(token))) IN
  IF EndsWith(base, Upper(quote)) THEN base ELSE base \o Upper(quote)

\* symbol_for_record of submit_position_if_enabled
symbol_for_record(c, sig) ==
  IF c.exchange = "xt"
  THEN Upper(OrEmpty(sig.token)) \o <<"/">> \o ORDER_QUOTE
  ELSE Upper(OrEmpty(sig.token)) \o ORDER_QUOTE

\* The symbol determine_order_quantity asks the price of
sizing_symbol(c, token) ==
  IF c.exchange = "bitunix"
  THEN symbol_pair_bitunix(token[1], ORDER_QUOTE)
  ELSE xt_swap_symbol(token[1], ORDER_QUOTE)

\* BitunixClient.__init__ raises RuntimeError when no proxy is configured
BitunixClientRaises(c) == ~c.proxy_ok

\* determine_order_quantity: does the call construct an adapter that raises
sizing_raises(c, token) ==
  TruthySeq(token) /\ c.exchange = "bitunix" /\ BitunixClientRaises(c)

\* "current_price = client.fetch_price(symbol) or entry_price"
price_or_entry(live, entry_price) ==
  IF TruthyNum(live) THEN live ELSE entry_price

\* does determine_order_quantity reach the price fetch / the balance fetch
sizing_fetches_price(c, token) == TruthySeq(token) /\ ~sizing_raises(c, token)
sizing_fetches_balance(c, token, entry_price, live) ==
  /\ sizing_fetches_price(c, token)
  /\ TruthyNum(price_or_entry(live, entry_price))
  /\ price_or_entry(live, entry_price)[1] > 0

\* sizing_bitunix with the budget taken as the whole balance (the 0.9 dropped)
sizing_bitunix_full_balance(entry_price, live, free_quote) ==
  LET current_price == price_or_entry(live, entry_price) IN
  IF ~TruthyNum(current_price) \/ current_price[1] <= 0 THEN ZeroQty
  ELSE IF free_quote = None \/ free_quote[1] <= 0 THEN ZeroQty
  ELSE IF free_quote[1] < MIN_BUDGET_USD THEN ZeroQty
  ELSE compute_order_amount([num |-> free_quote[1], den |-> 1], current_price[1])

\* sizing_xt without the minimum-budget check
sizing_xt_no_floor(entry_price, live, free_quote) ==
  LET current_price == price_or_entry(live, entry_price) IN
  IF ~TruthyNum(current_price) \/ current_price[1] <= 0 THEN ZeroQty
  ELSE IF free_quote = None \/ free_quote[1] <= 0 THEN ZeroQty
  ELSE compute_order_amount([num |-> free_quote[1] * BudgetNum, den |-> BudgetDen],
                            current_price[1])

\* The sizing rule shared by the two branches, after the adapter is built:
\* live is what fetch_price returned, free_quote what get_available_balance did.
sizing_bitunix(entry_price, live, free_quote) ==
  LET current_price == price_or_entry(live, entry_price) IN
  IF ~TruthyNum(current_price) \/ current_price[1] <= 0 THEN ZeroQty
  ELSE IF free_quote = None \/ free_quote[1] <= 0 THEN ZeroQty
  ELSE IF free_quote[1] * BudgetNum < MIN_BUDGET_USD * BudgetDen THEN ZeroQty
  ELSE compute_order_amount([num |-> free_quote[1] * BudgetNum, den |-> BudgetDen],
                            current_price[1])

sizing_xt(entry_price, live, free_quote) ==
  LET current_price == price_or_entry(live, entry_price) IN
  IF ~TruthyNum(current_price) \/ current_price[1] <= 0 THEN ZeroQty
  ELSE IF free_quote = None \/ free_quote[1] <= 0 THEN ZeroQty
  ELSE IF free_quote[1] * BudgetNum < MIN_BUDGET_USD * BudgetDen THEN ZeroQty
  ELSE compute_order_amount([num |-> free_quote[1] * BudgetNum, den |-> BudgetDen],
                            current_price[1])

\* determine_order_quantity(cfg, token, entry_price), given the adapter answers
determine_order_quantity(c, token, entry_price, live, free_quote) ==
  IF ~TruthySeq(token) THEN ZeroQty
  ELSE IF c.exchange = "bitunix" THEN sizing_bitunix(entry_price, live, free_quote)
  ELSE sizing_xt(entry_price, live, free_quote)

\* ExecutionResult
ExecutionResult(success, order_id, status, error) ==
  [success |-> success, order_id |-> order_id, status |-> status, error |-> error]

\* dict.get(key, default)
DictGet(d, key, default) == IF key \in DOMAIN d THEN d[key] ELSE default

\* build_futures_order_params (exchange.py)
build_futures_order_params(leverage, stop_losses, take_profits) ==
  LET p0 == IF leverage # None THEN [leverage |-> leverage] ELSE <<>>
      p1 == IF stop_losses # <<>>
            THEN p0 @@ [stopLossPrice |-> Some(stop_losses[1])] ELSE p0
      p2 == IF take_profits # <<>>
            THEN p1 @@ [takeProfitPrice |-> Some(take_profits[1])] ELSE p1
  IN p2

SeqMin(s) == CHOOSE x \in {s[i] : i \in 1..Len(s)} : \A j \in 1..Len(s) : x <= s[j]
SeqMax(s) == CHOOSE x \in {s[i] : i \in 1..Len(s)} : \A j \in 1..Len(s) : x >= s[j]

\* bitunix_params taking the first level of each list, as the XT branch does
bitunix_params_first_levels(sig) ==
  LET tp_price == IF sig.take_profits # <<>> THEN Some(sig.take_profits[1]) ELSE None
      sl_price == IF sig.stop_losses # <<>> THEN Some(sig.stop_losses[1]) ELSE None
      base == [reduceOnly |-> Some(FALSE), tpPrice |-> tp_price, slPrice |-> sl_price]
  IN IF sig.leverage # None THEN base @@ [leverage |-> sig.leverage] ELSE base

\* params built by the Bitunix branch of submit_position_if_enabled
bitunix_params(sig) ==
  LET tp_price == IF sig.take_profits # <<>>
                  THEN IF PosLower(sig.position_type) = "long"
                       THEN Some(SeqMin(sig.take_profits))
                       ELSE Some(SeqMax(sig.take_profits))
                  ELSE None
      sl_price == IF sig.stop_losses # <<>>
                  THEN IF PosLower(sig.position_type) = "long"
                       THEN Some(SeqMax(sig.stop_losses))
                       ELSE Some(SeqMin(sig.stop_losses))
                  ELSE None
      base == [reduceOnly |-> Some(FALSE),
               tpPrice |-> tp_price,
               tpStopType |-> IF tp_price # None THEN Some("LAST_PRICE") ELSE None,
               tpOrderType |-> IF tp_price # None THEN Some("LIMIT") ELSE None,
               tpOrderPrice |-> tp_price,
               slPrice |-> sl_price,
               slStopType |-> IF sl_price # None THEN Some("LAST_PRICE") ELSE None,
               slOrderType |-> IF sl_price # None THEN Some("MARKET") ELSE None,
               slOrderPrice |-> None]
  IN IF sig.leverage # None THEN base @@ [leverage |-> sig.leverage] ELSE base

\* The protective levels BitunixClient.market_order hands to place_order
bitunix_order_levels(params) ==
  [tp_price |-> DictGet(params, "tpPrice", DictGet(params, "stopLossPrice", None)),
   sl_price |-> DictGet(params, "slPrice", DictGet(params, "takeProfitPrice", None))]

\* What the venue answers to an order: accepted, or failed with an error text
AdapterOutcomes ==
  {[ok |-> TRUE, err |-> <<>>]} \cup {[ok |-> FALSE, err |-> e] : e \in OrderErrors}

\* XTClient.market_order
xt_market_order(outcome) ==
  IF outcome.ok THEN ExecutionResult(TRUE, Some("order-1"), "filled", None)
  ELSE ExecutionResult(FALSE, None, "error", Some(outcome.err))

\* BitunixClient.place_order
bitunix_place_order(outcome) ==
  IF outcome.ok THEN ExecutionResult(TRUE, Some("order-1"), "submitted", None)
  ELSE ExecutionResult(FALSE, None, "error", Some(outcome.err))

\* ------------------------------------------------------------ repository
\* SubmittedPosition as passed to upsert_submitted_position
SubmittedPosition(key, symbol, side, quantity, price, leverage, order_id, status, error) ==
  [chat_id |-> key[1], message_id |-> key[2], symbol |-> symbol, side |-> side,
   quantity |-> quantity, price |-> price, leverage |-> leverage,
   order_id |-> order_id, status |-> status, error |-> error]

HasKey(r, chat_id, message_id) == r.chat_id = chat_id /\ r.message_id = message_id

\* upsert_submitted_position as a plain INSERT, without the ON CONFLICT clause
\* and without the UNIQUE(chat_id, message_id) constraint
upsert_submitted_position_plain_insert(rows, sp, now, new_id) ==
  rows \cup { sp @@ [id |-> Cardinality(rows) + 1,
                     created_at_utc |-> now, updated_at_utc |-> now] }

\* INSERT ... ON CONFLICT(chat_id, message_id) DO UPDATE SET ...
upsert_submitted_position(rows, sp, now, new_id) ==
  IF \E r \in rows : HasKey(r, sp.chat_id, sp.message_id)
  THEN { IF HasKey(r, sp.chat_id, sp.message_id)
         THEN [r EXCEPT !.symbol = sp.symbol, !.side = sp.side,
                        !.quantity = sp.quantity, !.price = sp.price,
                        !.leverage = sp.leverage, !.order_id = sp.order_id,
                        !.status = sp.status, !.error = sp.error,
                        !.updated_at_utc = now]
         ELSE r : r \in rows }
  ELSE rows \cup { sp @@ [id |-> new_id, created_at_utc |-> now, updated_at_utc |-> now] }

\* update_position_status that also rewrites the created timestamp
update_position_status_recreating(rows, chat_id, message_id, status, error, now) ==
  { IF HasKey(r, chat_id, message_id)
    THEN [r EXCEPT !.status = status, !.error = error, !.updated_at_utc = now,
                   !.created_at_utc = now]
    ELSE r : r \in rows }

\* UPDATE positions_submitted SET status, error, updated_at_utc WHERE key
update_position_status(rows, chat_id, message_id, status, error, now) ==
  { IF HasKey(r, chat_id, message_id)
    THEN [r EXCEPT !.status = status, !.error = error, !.updated_at_utc = now]
    ELSE r : r \in rows }

RowsOf(rows, key) == { r \in rows : HasKey(r, key[1], key[2]) }

\* ------------------------------------------------------------------- state
VARIABLES
  cfg,        \* the Config of the run
  positions,  \* table positions_submitted: a set of rows
  next_id,    \* next AUTOINCREMENT id of positions_submitted
  clock,      \* logical time of the storage writes (created/updated timestamps)
  pc,         \* position of the running submit_position_if_enabled call
  call,       \* arguments, locals and call log of the running call
  accepted,   \* per (chat_id, message_id): order calls the adapter accepted
  delivered   \* calls of submit_position_if_enabled started so far

VARIABLES
  channels,      \* ctx.channels: chat_id -> Optional[ChannelConfig]
  messages,      \* table messages: a set of rows
  trade_signals, \* table trade_signals: a set of rows
  hpc,           \* position of the running on_new_message handler
  event,         \* the event being handled and the handler's locals
  hlog,          \* calls made by the running handler, in order
  propagated,    \* an exception has left on_new_message
  caught,        \* exceptions caught and logged so far
  handled        \* events delivered to on_new_message so far

VARIABLES
  last_read,     \* the last window read: arguments, table read and result
  arrivals,      \* message ids in the order telethon received them
  tasks,         \* per message: the handler coroutine created for it
  holder,        \* the coroutine the event loop is running (0: none)
  trace,         \* inference and order calls of the coroutines, in order
  hb             \* position of heartbeat_task

hvars == <<channels, messages, trade_signals, hpc, event, hlog, propagated,
           caught, handled>>

VARIABLES
  sql,           \* the running sql_execute_with_retry call
  backfill,      \* position and counters of backfill_recent
  applied        \* the last function applied on its own: arguments and result

yvars == <<sql, backfill, applied>>

xvars == <<last_read, arrivals, tasks, holder, trace, hb, yvars>>

vars == <<cfg, positions, next_id, clock, pc, call, accepted, delivered, hvars,
          xvars>>

\* One entry of the call log: an adapter call, a storage write or a sleep
Ev(op, symbol, amount, params, ret) ==
  [op |-> op, symbol |-> symbol, amount |-> amount, params |-> params, ret |-> ret]

IdleCall ==
  [key |-> <<0, 0>>, sig |-> Sig(None, None, None, None, <<>>, <<>>),
   balance |-> None, quantity |-> ZeroQty, amount |-> ZeroQty, symbol |-> <<>>,
   result |-> None, attempts |-> 0, log |-> <<>>, raised |-> FALSE]

\* Number of log entries of the running call with one of the given operations
RECURSIVE CountOps(_, _)
CountOps(log, ops) ==
  IF log = <<>> THEN 0
  ELSE (IF Head(log).op \in ops THEN 1 ELSE 0) + CountOps(Tail(log), ops)

ExchangeOps == {"fetch_price", "get_available_balance", "change_leverage", "market_order"}
WriteOps == {"upsert_pending", "update_status"}
TerminalStatuses ==
  {"submitted", "rejected_anomaly", "rejected_deviation", "rejected_no_price",
   "rejected_no_quantity", "rejected_config", "error"}

Side(sig) == IF PosLower(sig.position_type) = "long" THEN "buy" ELSE "sell"

\* ---------------------------------------------------------------- handler
ChatIds == {1}
MessageIds == {1, 2}

\* ChannelConfig.window_size when the channel's configuration gives none
DEFAULT_WINDOW_SIZE == 5

\* ChannelConfig: the fields read by on_new_message and the extraction.  The
\* window_size of a channel is int(c.get("window_size", 5)), any integer.
ChannelConfigs ==
  {[policy |-> "single_message", enabled |-> TRUE, window_size |-> DEFAULT_WINDOW_SIZE],
   [policy |-> "windowed_messages", enabled |-> TRUE, window_size |-> DEFAULT_WINDOW_SIZE],
   [policy |-> "windowed_messages", enabled |-> TRUE, window_size |-> 0],
   [policy |-> "single_message", enabled |-> FALSE, window_size |-> DEFAULT_WINDOW_SIZE]}

\* ctx.channels as built by _resolve_and_setup_channels
ChannelMaps == [ChatIds -> {None} \cup {Some(c) : c \in ChannelConfigs}]

\* BotContext.get_channel_config
get_channel_config(chs, chat_id) == IF chat_id \in DOMAIN chs THEN chs[chat_id] ELSE None

\* is_channel_monitored without the test of the enabled flag
is_channel_monitored_any(chs, chat_id) == get_channel_config(chs, chat_id) # None

\* BotContext.is_channel_monitored
is_channel_monitored(chs, chat_id) ==
  LET channel_config == get_channel_config(chs, chat_id) IN
  channel_config # None /\ channel_config[1].enabled

\* The handler and its locals when no event is being handled
IdleEvent ==
  [chat_id |-> 0, id |-> 0, date |-> 0, text |-> <<>>, media |-> FALSE, paths |-> 0,
   sig |-> None]

\* One entry of the handler's log: the call and the messages it was given
HEv(op, keys) == [op |-> op, keys |-> keys]

\* The state of the handler between two events
HandlerInit ==
  /\ messages = {}
  /\ trade_signals = {}
  /\ hpc = "idle"
  /\ event = IdleEvent
  /\ hlog = <<>>
  /\ propagated = FALSE
  /\ caught = 0
  /\ handled = 0

\* No window has been read
NoRead ==
  [done |-> FALSE, chat_id |-> 0, window_size |-> 0, table |-> {},
   recent |-> <<>>, combined |-> <<>>]

\* Messages whose handler coroutines are followed on the event loop
LoopMessageIds == {1, 2}

\* No update has been received for the message
NoTask == [pc |-> "none", media |-> FALSE, busy |-> 0, attempts |-> 0]

\* No sql_execute_with_retry call is running
NoSql ==
  [pc |-> "idle", busy_retries |-> 0, attempts |-> 0, log |-> <<>>, outcome |-> "none"]

\* backfill_recent has not been called
NoBackfill == [pc |-> "idle", limit |-> 0, fetched |-> 0, attempts |-> 0, floods |-> 0]

\* No function has been applied
NotApplied ==
  [fn |-> "none", token |-> None, position_type |-> None, detected_entry |-> None,
   current_price |-> None, params |-> <<>>, result |-> FALSE,
   levels |-> [tp_price |-> None, sl_price |-> None]]

\* No window read so far, no handler coroutine on the event loop
XInit ==
  /\ sql = NoSql
  /\ backfill = NoBackfill
  /\ applied = NotApplied
  /\ last_read = NoRead
  /\ arrivals = <<>>
  /\ tasks = [m \in LoopMessageIds |-> NoTask]
  /\ holder = 0
  /\ trace = <<>>
  /\ hb = "sleep"

Init ==
  /\ cfg \in RunConfigs
  /\ XInit
  /\ positions = {}
  /\ next_id = 1
  /\ clock = 1
  /\ pc = "idle"
  /\ call = IdleCall
  /\ accepted = [k \in Keys |-> 0]
  /\ delivered = 0
  /\ channels = [c \in ChatIds |-> None]
  /\ HandlerInit

\* process_*_signal_extraction calls submit_position_if_enabled(cfg, conn, sig)
SubmitCall(k, sig, bal) ==
  /\ pc = "idle"
  /\ delivered < MaxDeliveries
  /\ delivered' = delivered + 1
  /\ call' = [IdleCall EXCEPT !.key = k, !.sig = sig, !.balance = bal]
  /\ pc' = IF cfg.enable_auto_execution THEN "check_config" ELSE "dry_run"
  /\ UNCHANGED <<xvars, hvars, cfg, positions, next_id, clock, accepted>>

\* the sizing part of a call: the adapter calls it makes, in order
SizingLog(live) ==
  LET tok == call.sig.token
      e1 == IF sizing_fetches_price(cfg, tok)
            THEN <<Ev("fetch_price", sizing_symbol(cfg, tok), ZeroQty, <<>>, live)>>
            ELSE <<>>
      e2 == IF sizing_fetches_balance(cfg, tok, call.sig.entry_price, live)
            THEN <<Ev("get_available_balance", ORDER_QUOTE, ZeroQty, <<>>, call.balance)>>
            ELSE <<>>
  IN e1 \o e2

\* the dry run writing the pending row of the order it logs
DryRun_with_pending_row(live) ==
  /\ pc = "dry_run"
  /\ positions' = upsert_submitted_position(positions,
                     SubmittedPosition(call.key, symbol_for_record(cfg, call.sig),
                        Side(call.sig), ZeroQty, call.sig.entry_price,
                        call.sig.leverage, None, "pending", None), clock, next_id)
  /\ pc' = "done"
  /\ UNCHANGED <<xvars, hvars, cfg, call, next_id, clock, accepted, delivered>>

\* executor.py 30-51: auto-execution disabled, log the order that would be sent
DryRun(live) ==
  /\ pc = "dry_run"
  /\ IF cfg.exchange = "bitunix" /\ BitunixClientRaises(cfg)
     THEN call' = [call EXCEPT !.raised = TRUE]
     ELSE call' = [call EXCEPT
            !.log = call.log \o SizingLog(live),
            !.quantity = determine_order_quantity(cfg, call.sig.token,
                           call.sig.entry_price, live, call.balance)]
  /\ pc' = "done"
  /\ UNCHANGED <<xvars, hvars, cfg, positions, next_id, clock, accepted, delivered>>

\* executor.py 53-88: credentials of the chosen exchange
CheckConfig ==
  /\ pc = "check_config"
  /\ IF ~cfg.creds_ok
     THEN /\ positions' = update_position_status(positions, call.key[1], call.key[2],
                            "rejected_config", Some(<<"credentials not configured">>), clock)
          /\ clock' = clock + 1
          /\ call' = [call EXCEPT !.log = Append(call.log,
                        Ev("update_status", <<>>, ZeroQty, <<>>, "rejected_config"))]
          /\ pc' = "done"
     ELSE /\ pc' = "upsert"
          /\ UNCHANGED <<positions, clock, call>>
  /\ UNCHANGED <<xvars, hvars, cfg, next_id, accepted, delivered>>

\* UpsertPending with the pending write left out
UpsertPending_skipped ==
  /\ pc = "upsert"
  /\ pc' = "sizing"
  /\ UNCHANGED <<xvars, hvars, cfg, positions, next_id, clock, call, accepted, delivered>>

\* executor.py 90-112: pre-create the record as pending
UpsertPending ==
  /\ pc = "upsert"
  /\ positions' = upsert_submitted_position(positions,
        SubmittedPosition(call.key, symbol_for_record(cfg, call.sig), Side(call.sig),
                          ZeroQty, call.sig.entry_price, call.sig.leverage,
                          None, "pending", None),
        clock, next_id)
  /\ next_id' = IF RowsOf(positions, call.key) = {} THEN next_id + 1 ELSE next_id
  /\ clock' = clock + 1
  /\ call' = [call EXCEPT !.log = Append(call.log,
                Ev("upsert_pending", <<>>, ZeroQty, <<>>, "pending"))]
  /\ pc' = "sizing"
  /\ UNCHANGED <<xvars, hvars, cfg, accepted, delivered>>

\* executor.py 114: quantity = determine_order_quantity(cfg, sig.token, sig.entry_price)
Sizing(live) ==
  /\ pc = "sizing"
  /\ IF sizing_raises(cfg, call.sig.token)
     THEN /\ call' = [call EXCEPT !.raised = TRUE]
          /\ pc' = "done"
     ELSE /\ call' = [call EXCEPT
                !.log = call.log \o SizingLog(live),
                !.quantity = determine_order_quantity(cfg, call.sig.token,
                               call.sig.entry_price, live, call.balance)]
          /\ pc' = "sized"
  /\ UNCHANGED <<xvars, hvars, cfg, positions, next_id, clock, accepted, delivered>>

\* executor.py 115-143: reject a non-positive quantity, else go to the venue
QuantityGate ==
  /\ pc = "sized"
  /\ IF ~QtyPositive(call.quantity)
     THEN /\ positions' = update_position_status(positions, call.key[1], call.key[2],
                            "rejected_no_quantity",
                            Some(<<"Unable to compute order quantity">>), clock)
          /\ clock' = clock + 1
          /\ call' = [call EXCEPT !.log = Append(call.log,
                        Ev("update_status", <<>>, ZeroQty, <<>>, "rejected_no_quantity"))]
          /\ pc' = "done"
     ELSE /\ pc' = IF cfg.exchange = "xt" THEN "execute" ELSE "bitunix_order"
          /\ UNCHANGED <<positions, clock, call>>
  /\ UNCHANGED <<xvars, hvars, cfg, next_id, accepted, delivered>>

\* "ref_price = current_price or (entry_price or 0.0)"
ref_price(current_price, entry_price) ==
  IF TruthyNum(current_price) THEN current_price[1]
  ELSE IF TruthyNum(entry_price) THEN entry_price[1] ELSE 0

\* exchange.py 103-150: execute_signal up to the order loop (XT path)
ExecuteSignal(current_price) ==
  /\ pc = "execute"
  /\ LET sig == call.sig
         symbol == xt_swap_symbol(OrEmpty(sig.token), ORDER_QUOTE)
         fetched == Append(call.log, Ev("fetch_price", symbol, ZeroQty, <<>>, current_price))
     IN
     IF is_anomalous_signal(sig.token, sig.position_type)
     THEN /\ call' = [call EXCEPT !.result = Some(ExecutionResult(FALSE, None,
                         "rejected_anomaly", Some(<<"Signal fields invalid or missing">>)))]
          /\ pc' = "terminal_write"
     ELSE IF price_deviation_too_high(sig.entry_price, current_price)
     THEN /\ call' = [call EXCEPT !.log = fetched, !.symbol = symbol,
                        !.result = Some(ExecutionResult(FALSE, None,
                          "rejected_deviation", Some(<<"Price deviation too high">>)))]
          /\ pc' = "terminal_write"
     ELSE IF ref_price(current_price, sig.entry_price) <= 0
     THEN /\ call' = [call EXCEPT !.log = fetched, !.symbol = symbol,
                        !.result = Some(ExecutionResult(FALSE, None,
                          "rejected_no_price", Some(<<"No valid price available">>)))]
          /\ pc' = "terminal_write"
     ELSE /\ call' = [call EXCEPT !.log = fetched, !.symbol = symbol,
                        !.amount = IF QtyPositive(call.quantity) THEN call.quantity
                                   ELSE compute_order_amount(
                                          [num |-> ORDER_NOTIONAL, den |-> 1],
                                          ref_price(current_price, sig.entry_price))]
          /\ pc' = "order"
  /\ UNCHANGED <<xvars, hvars, cfg, positions, next_id, clock, accepted, delivered>>

\* should_retry without the limit on the number of attempts
should_retry_unlimited(result, attempts) == is_safe_retry(result.error)

\* "if is_safe_retry(result.error) and attempts < 3"
should_retry(result, attempts) ==
  is_safe_retry(result.error) /\ attempts < MAX_ATTEMPTS

\* retry_delay with the same delay before every attempt
retry_delay_constant(attempts) == 1

\* "time.sleep(1.0 * attempts)": seconds slept before the next attempt
retry_delay(attempts) == 1 * attempts

\* exchange.py 152-179: one iteration of the order loop of execute_signal
OrderAttempt(outcome) ==
  /\ pc = "order"
  /\ LET sig == call.sig
         attempts == call.attempts + 1
         result == xt_market_order(outcome)
         params == build_futures_order_params(sig.leverage, sig.stop_losses,
                                              sig.take_profits)
         placed == Append(call.log,
                     Ev("market_order", call.symbol, call.amount, params, result))
     IN
     /\ accepted' = IF result.success
                    THEN [accepted EXCEPT ![call.key] = @ + 1] ELSE accepted
     /\ IF result.success
        THEN /\ call' = [call EXCEPT !.attempts = attempts, !.log = placed,
                           !.result = Some(result)]
             /\ pc' = "terminal_write"
        ELSE IF should_retry(result, attempts)
        THEN /\ call' = [call EXCEPT !.attempts = attempts,
                           !.log = Append(placed,
                                     Ev("sleep", <<>>, ZeroQty, <<>>, retry_delay(attempts))),
                           !.result = Some(result)]
             /\ pc' = "order"
        ELSE /\ call' = [call EXCEPT !.attempts = attempts, !.log = placed,
                           !.result = Some(result)]
             /\ pc' = "terminal_write"
  /\ UNCHANGED <<xvars, hvars, cfg, positions, next_id, clock, delivered>>

\* executor.py 143-199: the Bitunix branch, BitunixClient.market_order included
BitunixOrder(outcome) ==
  /\ pc = "bitunix_order"
  /\ LET sig == call.sig
         side == IF PosLower(sig.position_type) = "long" THEN "BUY" ELSE "SELL"
         symbol_pair == bitunix_swap_symbol(OrEmpty(sig.token), ORDER_QUOTE)
         params == bitunix_params(sig)
         result == bitunix_place_order(outcome)
         lev == IF DictGet(params, "leverage", None) # None
                THEN <<Ev("change_leverage", symbol_pair, ZeroQty, <<>>,
                          DictGet(params, "leverage", None))>>
                ELSE <<>>
     IN
     IF BitunixClientRaises(cfg)
     THEN /\ call' = [call EXCEPT !.result = Some(ExecutionResult(FALSE, None,
                         "error", Some(<<"Bitunix client requires a proxy">>)))]
          /\ UNCHANGED accepted
     ELSE /\ call' = [call EXCEPT
                !.symbol = symbol_pair, !.amount = call.quantity,
                !.attempts = call.attempts + 1,
                !.log = call.log \o lev \o
                        <<Ev("market_order", symbol_pair, call.quantity,
                             bitunix_order_levels(params), result)>>,
                !.result = Some(result)]
          /\ accepted' = IF result.success
                         THEN [accepted EXCEPT ![call.key] = @ + 1] ELSE accepted
  /\ pc' = "terminal_write"
  /\ UNCHANGED <<xvars, hvars, cfg, positions, next_id, clock, delivered>>

\* terminal_status writing the adapter's own status also on success
terminal_status_of_adapter(result) == result.status

\* terminal_error writing no error text at all
terminal_error_dropped(result) == None

\* status / error handed to update_position_status after the venue step
terminal_status(result) == IF result.success THEN "submitted" ELSE result.status
terminal_error(result) == IF result.success THEN None ELSE result.error

\* the end of submit_position_if_enabled with no write of the result
TerminalWrite_skipped ==
  /\ pc = "terminal_write"
  /\ pc' = "done"
  /\ UNCHANGED <<xvars, hvars, cfg, positions, next_id, clock, call, accepted, delivered>>

\* executor.py 201-222: write the adapter's result to the row
TerminalWrite ==
  /\ pc = "terminal_write"
  /\ LET result == call.result[1]
         status == terminal_status(result)
         error == terminal_error(result)
     IN
     /\ positions' = update_position_status(positions, call.key[1], call.key[2],
                                            status, error, clock)
     /\ call' = [call EXCEPT !.log = Append(call.log,
                   Ev("update_status", <<>>, ZeroQty, <<>>, status))]
  /\ clock' = clock + 1
  /\ pc' = "done"
  /\ UNCHANGED <<xvars, hvars, cfg, next_id, accepted, delivered>>

\* submit_position_if_enabled returns (or its exception reaches the caller's
\* "except Exception" in process_*_signal_extraction, which logs it)
Return ==
  /\ pc = "done"
  /\ pc' = "idle"
  /\ call' = IdleCall
  /\ UNCHANGED <<xvars, hvars, cfg, positions, next_id, clock, accepted, delivered>>

Next ==
  \/ \E k \in Keys, sig \in Signals, bal \in BalanceVals : SubmitCall(k, sig, bal)
  \/ \E live \in PriceVals : DryRun(live)
  \/ CheckConfig
  \/ UpsertPending
  \/ \E live \in PriceVals : Sizing(live)
  \/ QuantityGate
  \/ \E current_price \in PriceVals : ExecuteSignal(current_price)
  \/ \E outcome \in AdapterOutcomes : OrderAttempt(outcome)
  \/ \E outcome \in AdapterOutcomes : BitunixOrder(outcome)
  \/ TerminalWrite
  \/ Return

Spec == Init /\ [][Next]_vars

\* ------------------------------------------ the venue's answers to an order
\* Runs of submit_position_if_enabled on signals that reach the order call (a
\* long and a short with protective levels, a long with take-profits only, a
\* short with stop-losses only), with every kind of answer of the venue:
\* accepted, a network error, a rejection, and a rejection whose message text
\* names a timeout.
RetrySignals ==
  { Sig(Some(TOK_BTC), Some("long"), Some(100), Some(10), <<90, 95>>, <<110, 120>>),
    Sig(Some(TOK_BTC), Some("short"), Some(100), Some(10), <<115, 110>>, <<80, 90>>),
    Sig(Some(TOK_BTC), Some("long"), Some(100), None, <<>>, <<120, 110>>),
    Sig(Some(TOK_BTC), Some("short"), Some(100), None, <<110, 115>>, <<>>) }
RetryPriceVals == {Some(100)}
RetryBalanceVals == {Some(12)}
RetryOutcomes ==
  {[ok |-> TRUE, err |-> <<>>]}
  \cup {[ok |-> FALSE, err |-> e] : e \in OrderErrors \cup {ERR_REJECTED_TEXT}}

RetryNext ==
  \/ \E k \in Keys, sig \in RetrySignals, bal \in RetryBalanceVals : SubmitCall(k, sig, bal)
  \/ \E live \in RetryPriceVals : DryRun(live)
  \/ CheckConfig
  \/ UpsertPending
  \/ \E live \in RetryPriceVals : Sizing(live)
  \/ QuantityGate
  \/ \E current_price \in RetryPriceVals : ExecuteSignal(current_price)
  \/ \E outcome \in RetryOutcomes : OrderAttempt(outcome)
  \/ \E outcome \in RetryOutcomes : BitunixOrder(outcome)
  \/ TerminalWrite
  \/ Return

RetrySpec == Init /\ [][RetryNext]_vars

\* ------------------------------------------------- the message handler
pvars == <<cfg, positions, next_id, clock, pc, call, accepted, delivered>>

\* Configurations of the runs of the handler
HandlerConfigs == { c \in Configs : c.creds_ok /\ (c.exchange = "xt" => c.proxy_ok) }

\* What the inference service answers: no signal (or a failed request), a
\* result whose entry_price is not a number, or a result with the signal fields
HandlerSignals ==
  { Sig(Some(TOK_BTC), Some("long"), Some(100), Some(10), <<90, 95>>, <<110, 120>>),
    Sig(None, Some("long"), None, None, <<>>, <<>>) }
InferenceResults ==
  {None}
  \cup {Some([malformed |-> FALSE, fields |-> sg]) : sg \in HandlerSignals}
  \cup {Some([malformed |-> TRUE, fields |-> Sig(None, None, None, None, <<>>, <<>>)])}

HandlerPriceVals == {None, Some(100)}
HandlerBalanceVals == {Some(5), Some(12)}
HandlerOutcomes == {[ok |-> TRUE, err |-> <<>>], [ok |-> FALSE, err |-> ERR_NETWORK]}

\* Message texts: none, and a text.  A message's date is its id here (the
\* ids of a channel grow with the date).
HandlerTexts == {<<>>, <<"A">>}

PersistOutcomes == {"saved", "saved_no_path", "storage_error", "download_error"}

EventKey == <<event.chat_id, event.id>>

\* upsert_message: INSERT ... ON CONFLICT(chat_id, message_id) DO UPDATE
upsert_message(rows, rec) ==
  { m \in rows : ~(m.chat_id = rec.chat_id /\ m.message_id = rec.message_id) } \cup {rec}

\* insert_trade_signal: INSERT ... ON CONFLICT(chat_id, message_id) DO UPDATE
insert_trade_signal(rows, rec) ==
  { t \in rows : ~(t.chat_id = rec.chat_id /\ t.message_id = rec.message_id) } \cup {rec}

\* str.strip(): leading and trailing whitespace removed
Whitespace == {" ", "\n"}

RECURSIVE lstrip(_)
lstrip(s) == IF s # <<>> /\ Head(s) \in Whitespace THEN lstrip(Tail(s)) ELSE s

RECURSIVE rstrip(_)
rstrip(s) ==
  IF s # <<>> /\ s[Len(s)] \in Whitespace THEN rstrip(SubSeq(s, 1, Len(s) - 1)) ELSE s

strip(s) == rstrip(lstrip(s))

\* list(reversed(messages))
Reversed(s) == [i \in 1..Len(s) |-> s[Len(s) + 1 - i]]

\* ORDER BY date_utc DESC with no second sort key
order_by_date_only(a, b) == a.date_utc > b.date_utc

\* ORDER BY date_utc DESC, message_id DESC: row a is listed before row b
order_by(a, b) ==
  \/ a.date_utc > b.date_utc
  \/ a.date_utc = b.date_utc /\ a.message_id > b.message_id

\* SELECT ... FROM messages WHERE chat_id = ? ORDER BY ... LIMIT ?: the row
\* lists the query may return (rows the ordering does not separate may come in
\* either order); a negative LIMIT is no limit
select_recent(rows, chat_id, window_size) ==
  LET R == { m \in rows : m.chat_id = chat_id }
      n == IF window_size < 0 \/ window_size > Cardinality(R)
           THEN Cardinality(R) ELSE window_size
  IN { s \in [1..n -> R] :
         /\ \A i, j \in 1..n : i < j => s[i] # s[j] /\ ~order_by(s[j], s[i])
         /\ \A m \in R : (\A i \in 1..n : s[i] # m) =>
                           \A i \in 1..n : ~order_by(m, s[i]) }

\* _get_recent_messages: the lists it may return, oldest message first.  A
\* row's text is "row[3] or ''": NULL and the empty string are both <<>>.
get_recent_messages(rows, chat_id, window_size) ==
  { Reversed(s) : s \in select_recent(rows, chat_id, window_size) }

\* The keys of the messages of a window
KeysOf(recent) == { <<recent[i].chat_id, recent[i].message_id>> : i \in 1..Len(recent) }

\* _combine_messages_for_analysis with no test of the stripped text
combine_messages_unfiltered(recent) ==
  [i \in 1..Len(recent) |->
     [message_id |-> recent[i].message_id, date_utc |-> recent[i].date_utc,
      text |-> strip(recent[i].text)]]

\* _combine_messages_for_analysis: the combined text as the list of its parts
\* "[Message {message_id} at {date_utc}]: {text}", joined by a blank line
RECURSIVE combine_messages_for_analysis(_)
combine_messages_for_analysis(recent) ==
  IF recent = <<>> THEN <<>>
  ELSE LET msg == Head(recent)
           text == strip(msg.text)
       IN (IF text # <<>>
           THEN <<[message_id |-> msg.message_id, date_utc |-> msg.date_utc,
                   text |-> text]>>
           ELSE <<>>) \o combine_messages_for_analysis(Tail(recent))

\* dispatch_target sending every message to the single-message path
dispatch_target_always_single(policy) == "single"

\* handlers.py 49-60: the processing path of a channel policy
dispatch_target(policy) ==
  IF policy = "single_message" THEN "single"
  ELSE IF policy = "windowed_messages" THEN "windowed"
  ELSE "returned"

\* the test of the window that lets an empty window through to the inference
no_recent_messages_never(recent) == FALSE

\* signal_extraction.py 91-95: "if not recent_messages: ... return"
no_recent_messages(recent) == recent = <<>>

\* the test of the inference result raising on a null result
after_inference_none_raises(result) == IF result = None THEN "except" ELSE "save"

\* signal_extraction.py 116-118 / 207-212: "if not result: ... return"
after_inference(result) == IF result = None THEN "returned" ELSE "save"

\* telethon delivers a NewMessage event to on_new_message
OnNewMessage(chat_id, id, date, text, media) ==
  /\ hpc = "idle" /\ pc = "idle"
  /\ handled < MaxMessages
  /\ handled' = handled + 1
  /\ event' = [IdleEvent EXCEPT !.chat_id = chat_id, !.id = id, !.date = date,
                                !.text = text, !.media = media]
  /\ hlog' = <<>>
  /\ hpc' = "route"
  /\ UNCHANGED <<xvars, pvars, channels, messages, trade_signals, propagated, caught>>

\* handlers.py 19-31: drop the message of a channel that is not monitored
Route ==
  /\ hpc = "route"
  /\ IF ~is_channel_monitored(channels, event.chat_id)
     THEN /\ hlog' = Append(hlog, HEv("warning", {}))
          /\ hpc' = "returned"
     ELSE IF get_channel_config(channels, event.chat_id) = None
     THEN /\ hlog' = Append(hlog, HEv("warning", {}))
          /\ hpc' = "returned"
     ELSE /\ hpc' = "persist"
          /\ UNCHANGED hlog
  /\ UNCHANGED <<xvars, pvars, channels, messages, trade_signals, event, propagated,
                 caught, handled>>

\* handlers.py 33-46: persist_message (upsert_message, then the media download)
PersistMessage(outcome) ==
  /\ hpc = "persist"
  /\ outcome \in {"saved_no_path", "download_error"} => event.media
  /\ hlog' = Append(hlog, HEv("persist_message", {EventKey}))
  /\ IF outcome = "storage_error"
     THEN /\ hpc' = "except"
          /\ UNCHANGED <<messages, event>>
     ELSE /\ messages' = upsert_message(messages,
                           [chat_id |-> event.chat_id, message_id |-> event.id,
                            date_utc |-> event.date, text |-> event.text])
          /\ IF outcome = "download_error"
             THEN /\ hpc' = "except"
                  /\ UNCHANGED event
             ELSE /\ hpc' = "dispatch"
                  /\ event' = [event EXCEPT !.paths =
                                 IF event.media /\ outcome = "saved" THEN 1 ELSE 0]
  /\ UNCHANGED <<xvars, pvars, channels, trade_signals, propagated, caught, handled>>

\* handlers.py 48-60: dispatch by the policy of the channel
Dispatch ==
  /\ hpc = "dispatch"
  /\ LET target == dispatch_target(get_channel_config(channels, event.chat_id)[1].policy) IN
     /\ hpc' = target
     /\ hlog' = Append(hlog,
                  HEv(CASE target = "single" -> "process_single_message_signal_extraction"
                        [] target = "windowed" -> "process_windowed_signal_extraction"
                        [] OTHER -> "warning", {EventKey}))
  /\ UNCHANGED <<xvars, pvars, channels, messages, trade_signals, event, propagated,
                 caught, handled>>

\* signal_extraction.py 184-212: process_single_message_signal_extraction up to
\* the inference result
SingleExtraction(download_ok, result) ==
  /\ hpc = "single"
  /\ IF strip(event.text) = <<>> /\ ~event.media
     THEN /\ hpc' = "returned"
          /\ UNCHANGED <<hlog, event>>
     ELSE IF event.paths = 0 /\ event.media /\ ~download_ok
     THEN /\ hlog' = Append(hlog, HEv("download_media_if_any", {EventKey}))
          /\ hpc' = "except"
          /\ UNCHANGED event
     ELSE /\ hlog' = hlog \o
                 (IF event.paths = 0 /\ event.media
                  THEN <<HEv("download_media_if_any", {EventKey})>> ELSE <<>>)
                 \o <<HEv("extract_signal", {EventKey})>>
          /\ event' = [event EXCEPT !.sig = result]
          /\ hpc' = after_inference(result)
  /\ UNCHANGED <<xvars, pvars, channels, messages, trade_signals, propagated, caught, handled>>

\* signal_extraction.py 82-118: process_windowed_signal_extraction up to the
\* inference result
WindowedExtraction(query_ok, download_ok, result) ==
  /\ hpc = "windowed"
  /\ \E recent \in get_recent_messages(messages, event.chat_id,
                       get_channel_config(channels, event.chat_id)[1].window_size) :
     LET recent_messages == KeysOf(recent)
         queried == Append(hlog, HEv("_get_recent_messages", recent_messages))
     IN
     IF ~query_ok
     THEN /\ hlog' = Append(hlog, HEv("_get_recent_messages", {}))
          /\ hpc' = "except"
          /\ UNCHANGED event
     ELSE IF no_recent_messages(recent)
     THEN /\ hlog' = queried
          /\ hpc' = "returned"
          /\ UNCHANGED event
     ELSE IF event.paths = 0 /\ event.media /\ ~download_ok
     THEN /\ hlog' = Append(queried, HEv("download_media_if_any", {EventKey}))
          /\ hpc' = "except"
          /\ UNCHANGED event
     ELSE /\ hlog' = queried \o
                 (IF event.paths = 0 /\ event.media
                  THEN <<HEv("download_media_if_any", {EventKey})>> ELSE <<>>)
                 \o <<HEv("extract_signal", recent_messages)>>
          /\ event' = [event EXCEPT !.sig = result]
          /\ hpc' = after_inference(result)
  /\ UNCHANGED <<xvars, pvars, channels, messages, trade_signals, propagated, caught, handled>>

\* signal_extraction.py 120-149 / 214-243: build the TradeSignal and save it; an
\* exception is caught by the "except Exception" of the extraction function
SaveSignal(storage_ok) ==
  /\ hpc = "save"
  /\ IF event.sig[1].malformed \/ ~storage_ok
     THEN /\ hlog' = Append(hlog, HEv("exception_logged", {EventKey}))
          /\ caught' = caught + 1
          /\ hpc' = "returned"
          /\ UNCHANGED trade_signals
     ELSE /\ trade_signals' = insert_trade_signal(trade_signals,
                                [chat_id |-> event.chat_id, message_id |-> event.id,
                                 sig |-> event.sig[1].fields,
                                 windowed |-> get_channel_config(channels,
                                     event.chat_id)[1].policy = "windowed_messages"])
          /\ hlog' = Append(hlog, HEv("insert_trade_signal", {EventKey}))
          /\ hpc' = "submit"
          /\ UNCHANGED caught
  /\ UNCHANGED <<xvars, pvars, channels, messages, event, propagated, handled>>

\* signal_extraction.py 158 / 248: res = submit_position_if_enabled(cfg, conn, sig)
HandlerSubmit(bal) ==
  /\ hpc = "submit" /\ pc = "idle"
  /\ delivered' = delivered + 1
  /\ call' = [IdleCall EXCEPT !.key = EventKey, !.sig = event.sig[1].fields, !.balance = bal]
  /\ pc' = IF cfg.enable_auto_execution THEN "check_config" ELSE "dry_run"
  /\ hlog' = Append(hlog, HEv("submit_position_if_enabled", {EventKey}))
  /\ hpc' = "in_submit"
  /\ UNCHANGED <<xvars, cfg, positions, next_id, clock, accepted>>
  /\ UNCHANGED <<channels, messages, trade_signals, event, propagated, caught, handled>>

\* signal_extraction.py 159-170 / 249-262: submit_position_if_enabled returned,
\* or raised into the "except Exception" of the extraction function
AfterSubmit ==
  /\ hpc = "in_submit" /\ pc = "done"
  /\ pc' = "idle"
  /\ call' = IdleCall
  /\ IF call.raised
     THEN /\ hlog' = Append(hlog, HEv("exception_logged", {EventKey}))
          /\ caught' = caught + 1
     ELSE /\ UNCHANGED <<hlog, caught>>
  /\ hpc' = "returned"
  /\ UNCHANGED <<xvars, cfg, positions, next_id, clock, accepted, delivered>>
  /\ UNCHANGED <<channels, messages, trade_signals, event, propagated, handled>>

\* HandlerExcept without the "except Exception" clause: the exception leaves
\* on_new_message
HandlerExcept_reraise ==
  /\ hpc = "except"
  /\ propagated' = TRUE
  /\ hpc' = "returned"
  /\ UNCHANGED <<xvars, pvars, channels, messages, trade_signals, event, hlog, caught, handled>>

\* handlers.py 62-63: "except Exception as e: logger.exception(...)"
HandlerExcept ==
  /\ hpc = "except"
  /\ hlog' = Append(hlog, HEv("exception_logged", {EventKey}))
  /\ caught' = caught + 1
  /\ hpc' = "returned"
  /\ UNCHANGED <<xvars, pvars, channels, messages, trade_signals, event, propagated, handled>>

\* on_new_message returns
HandlerReturn ==
  /\ hpc = "returned"
  /\ hpc' = "idle"
  /\ event' = IdleEvent
  /\ hlog' = <<>>
  /\ UNCHANGED <<xvars, pvars, channels, messages, trade_signals, propagated, caught, handled>>

HandlerSpecInit ==
  /\ cfg \in HandlerConfigs
  /\ positions = {}
  /\ next_id = 1
  /\ clock = 1
  /\ pc = "idle"
  /\ call = IdleCall
  /\ accepted = [k \in Keys |-> 0]
  /\ delivered = 0
  /\ channels \in ChannelMaps
  /\ HandlerInit
  /\ XInit

HandlerNext ==
  \/ \E chat_id \in ChatIds, id \in MessageIds, text \in HandlerTexts, media \in BOOLEAN :
       OnNewMessage(chat_id, id, id, text, media)
  \/ Route
  \/ \E outcome \in PersistOutcomes : PersistMessage(outcome)
  \/ Dispatch
  \/ \E download_ok \in BOOLEAN, result \in InferenceResults :
       SingleExtraction(download_ok, result)
  \/ \E query_ok \in BOOLEAN, download_ok \in BOOLEAN, result \in InferenceResults :
       WindowedExtraction(query_ok, download_ok, result)
  \/ \E storage_ok \in BOOLEAN : SaveSignal(storage_ok)
  \/ \E bal \in HandlerBalanceVals : HandlerSubmit(bal)
  \/ \E live \in HandlerPriceVals : DryRun(live)
  \/ CheckConfig
  \/ UpsertPending
  \/ \E live \in HandlerPriceVals : Sizing(live)
  \/ QuantityGate
  \/ \E current_price \in HandlerPriceVals : ExecuteSignal(current_price)
  \/ \E outcome \in HandlerOutcomes : OrderAttempt(outcome)
  \/ \E outcome \in HandlerOutcomes : BitunixOrder(outcome)
  \/ TerminalWrite
  \/ AfterSubmit
  \/ HandlerExcept
  \/ HandlerReturn

HandlerSpec == HandlerSpecInit /\ [][HandlerNext]_vars

\* ------------------------------------------------------ window aggregation
\* The window read and the combined text of process_windowed_signal_extraction
\* over every small table of messages.
MaxStored == 3

WindowKeys == {<<1, 1>>, <<1, 2>>, <<1, 3>>, <<2, 1>>}
WindowDates == {1, 2}
WindowTexts == {<<>>, <<" ">>, <<"A">>, <<" ", "B", "\n">>}
WindowSizes == {0, 1, 2, 3}

\* the event loop and its coroutines
lvars == <<arrivals, tasks, holder, trace, hb>>

\* persist_message (handler or backfill): upsert_message of one message
StoreMessage(rec) ==
  /\ Cardinality(upsert_message(messages, rec)) <= MaxStored
  /\ messages' = upsert_message(messages, rec)
  /\ last_read' = NoRead
  /\ UNCHANGED <<yvars, pvars, lvars, channels, trade_signals, hpc, event, hlog,
                 propagated, caught, handled>>

\* a window read that deletes the rows it returns
ReadWindow_consuming(chat_id, window_size) ==
  /\ \E recent \in get_recent_messages(messages, chat_id, window_size) :
       /\ last_read' = [done |-> TRUE, chat_id |-> chat_id, window_size |-> window_size,
                        table |-> messages, recent |-> recent,
                        combined |-> combine_messages_for_analysis(recent)]
       /\ messages' = { m \in messages : \A i \in 1..Len(recent) : recent[i] # m }
  /\ UNCHANGED <<yvars, pvars, lvars, channels, trade_signals, hpc, event, hlog,
                 propagated, caught, handled>>

\* signal_extraction.py 85-98: recent_messages = _get_recent_messages(conn,
\* chat_id, window_size); combined_text = _combine_messages_for_analysis(...)
ReadWindow(chat_id, window_size) ==
  /\ \E recent \in get_recent_messages(messages, chat_id, window_size) :
       last_read' = [done |-> TRUE, chat_id |-> chat_id, window_size |-> window_size,
                     table |-> messages, recent |-> recent,
                     combined |-> combine_messages_for_analysis(recent)]
  /\ UNCHANGED <<yvars, pvars, lvars, channels, messages, trade_signals, hpc, event, hlog,
                 propagated, caught, handled>>

WindowInit ==
  /\ Init
  /\ cfg.exchange = "xt" /\ cfg.creds_ok /\ cfg.enable_auto_execution

WindowNext ==
  \/ \E k \in WindowKeys, d \in WindowDates, t \in WindowTexts :
       StoreMessage([chat_id |-> k[1], message_id |-> k[2], date_utc |-> d, text |-> t])
  \/ \E k \in WindowKeys, w \in WindowSizes : ReadWindow(k[1], w)

WindowSpec == WindowInit /\ [][WindowNext]_vars

\* ------------------------------------------------ auto-execution disabled
\* Calls of submit_position_if_enabled with ENABLE_AUTO_EXECUTION off, on an
\* empty table and on a table with the row of an earlier run.
EarlierRow ==
  update_position_status(
    upsert_submitted_position({},
      SubmittedPosition(<<1, 1>>, <<"B", "T", "C", "/">> \o ORDER_QUOTE, "buy",
                        [num |-> 1, den |-> 10], Some(100),
                        Some(10), None, "pending", None), 0, 1),
    1, 1, "submitted", None, 0)

DryRunInit ==
  /\ cfg \in { c \in RunConfigs : ~c.enable_auto_execution }
  /\ positions \in {{}, EarlierRow}
  /\ next_id = Cardinality(positions) + 1
  /\ clock = 1
  /\ pc = "idle"
  /\ call = IdleCall
  /\ accepted = [k \in Keys |-> 0]
  /\ delivered = 0
  /\ channels = [c \in ChatIds |-> None]
  /\ HandlerInit
  /\ XInit

DryRunNext ==
  \/ \E k \in Keys, sig \in Signals, bal \in BalanceVals : SubmitCall(k, sig, bal)
  \/ \E live \in PriceVals : DryRun(live)
  \/ Return

DryRunSpec == DryRunInit /\ [][DryRunNext]_vars

\* ----------------------------------------------------------- the event loop
\* The on_new_message coroutines of one single-message channel and
\* heartbeat_task on the asyncio event loop.  telethon creates one task per
\* update (build_client does not ask for sequential updates); the loop runs one
\* coroutine at a time, from one suspending "await" to the next.  The only
\* awaits of a handler that suspend are the media downloads; the storage
\* writes, the inference request, the adapter calls and both sleeps are plain
\* calls, which return to the loop only when the coroutine next suspends or ends.
MaxBusyRetries == 1

\* asyncio starts the tasks in the order they were created
FirstReady(m) ==
  \A i, j \in 1..Len(arrivals) :
    (arrivals[i] = m /\ j < i) => tasks[arrivals[j]].pc # "ready"

LoopUnchanged == UNCHANGED <<pvars, hvars, last_read, yvars>>

\* telethon receives the update of message m and creates the handler's task
Arrive(m, media) ==
  /\ tasks[m].pc = "none"
  /\ arrivals' = Append(arrivals, m)
  /\ tasks' = [tasks EXCEPT ![m] = [NoTask EXCEPT !.pc = "ready", !.media = media]]
  /\ UNCHANGED <<holder, trace, hb>>
  /\ LoopUnchanged

\* handlers.py 17-33: the loop starts the coroutine; it runs to persist_message
StartHandler(m) ==
  /\ holder = 0
  /\ tasks[m].pc = "ready" /\ FirstReady(m)
  /\ holder' = m
  /\ tasks' = [tasks EXCEPT ![m].pc = "persist"]
  /\ UNCHANGED <<arrivals, trace, hb>>
  /\ LoopUnchanged

\* messages.py 134-139: upsert_message through sql_execute_with_retry, then
\* "await download_media_if_any", which suspends only when the message has media
Persist(m, locked) ==
  /\ holder = m /\ tasks[m].pc = "persist"
  /\ locked => tasks[m].busy < MaxBusyRetries
  /\ IF locked
     THEN /\ tasks' = [tasks EXCEPT ![m].pc = "lock_sleep", ![m].busy = @ + 1]
          /\ UNCHANGED holder
     ELSE IF tasks[m].media
     THEN /\ tasks' = [tasks EXCEPT ![m].pc = "download"]
          /\ holder' = 0
     ELSE /\ tasks' = [tasks EXCEPT ![m].pc = "inference"]
          /\ UNCHANGED holder
  /\ UNCHANGED <<arrivals, trace, hb>>
  /\ LoopUnchanged

\* sqlite.py 108-116: the loop is running, so time.sleep(busy_sleep_secs)
LockSleep(m) ==
  /\ holder = m /\ tasks[m].pc = "lock_sleep"
  /\ tasks' = [tasks EXCEPT ![m].pc = "persist"]
  /\ UNCHANGED <<arrivals, holder, trace, hb>>
  /\ LoopUnchanged

\* messages.py 96: the download ended and the loop resumes the coroutine; with
\* no saved path the extraction awaits the download again
\* (signal_extraction.py 192-199)
DownloadDone(m, got_path) ==
  /\ holder = 0 /\ tasks[m].pc = "download"
  /\ IF got_path
     THEN /\ tasks' = [tasks EXCEPT ![m].pc = "inference"]
          /\ holder' = m
     ELSE /\ tasks' = [tasks EXCEPT ![m].pc = "download_again"]
          /\ UNCHANGED holder
  /\ UNCHANGED <<arrivals, trace, hb>>
  /\ LoopUnchanged

\* signal_extraction.py 194: the second download ended
RedownloadDone(m) ==
  /\ holder = 0 /\ tasks[m].pc = "download_again"
  /\ tasks' = [tasks EXCEPT ![m].pc = "inference"]
  /\ holder' = m
  /\ UNCHANGED <<arrivals, trace, hb>>
  /\ LoopUnchanged

\* signal_extraction.py 201-212: extract_signal (urllib.request.urlopen)
Inference(m, found) ==
  /\ holder = m /\ tasks[m].pc = "inference"
  /\ trace' = Append(trace, [op |-> "extract_signal", id |-> m])
  /\ IF found
     THEN /\ tasks' = [tasks EXCEPT ![m].pc = "fetch_price"]
          /\ UNCHANGED holder
     ELSE /\ tasks' = [tasks EXCEPT ![m].pc = "done"]
          /\ holder' = 0
  /\ UNCHANGED <<arrivals, hb>>
  /\ LoopUnchanged

\* order_sizing.py: client.fetch_price(symbol)
FetchPrice(m) ==
  /\ holder = m /\ tasks[m].pc = "fetch_price"
  /\ tasks' = [tasks EXCEPT ![m].pc = "get_balance"]
  /\ UNCHANGED <<arrivals, holder, trace, hb>>
  /\ LoopUnchanged

\* order_sizing.py: client.get_available_balance(quote); a balance under the
\* floor ends the call
GetBalance(m, enough) ==
  /\ holder = m /\ tasks[m].pc = "get_balance"
  /\ IF enough
     THEN /\ tasks' = [tasks EXCEPT ![m].pc = "order"]
          /\ UNCHANGED holder
     ELSE /\ tasks' = [tasks EXCEPT ![m].pc = "done"]
          /\ holder' = 0
  /\ UNCHANGED <<arrivals, trace, hb>>
  /\ LoopUnchanged

\* exchange.py 152-179: one order call of the retry loop
Order(m, ok) ==
  /\ holder = m /\ tasks[m].pc = "order"
  /\ trace' = Append(trace, [op |-> "market_order", id |-> m])
  /\ IF ~ok /\ tasks[m].attempts + 1 < MAX_ATTEMPTS
     THEN /\ tasks' = [tasks EXCEPT ![m].pc = "retry_sleep", ![m].attempts = @ + 1]
          /\ UNCHANGED holder
     ELSE /\ tasks' = [tasks EXCEPT ![m].pc = "done", ![m].attempts = @ + 1]
          /\ holder' = 0
  /\ UNCHANGED <<arrivals, hb>>
  /\ LoopUnchanged

\* exchange.py 171: time.sleep(1.0 * attempts)
RetrySleep(m) ==
  /\ holder = m /\ tasks[m].pc = "retry_sleep"
  /\ tasks' = [tasks EXCEPT ![m].pc = "order"]
  /\ UNCHANGED <<arrivals, holder, trace, hb>>
  /\ LoopUnchanged

\* heartbeat.py 10-16: the loop runs heartbeat_task from one await to the next
Heartbeat ==
  /\ holder = 0
  /\ hb' = IF hb = "sleep" THEN "get_me" ELSE "sleep"
  /\ UNCHANGED <<arrivals, tasks, holder, trace>>
  /\ LoopUnchanged

LoopInit ==
  /\ Init
  /\ cfg.exchange = "xt" /\ cfg.creds_ok /\ cfg.enable_auto_execution

LoopNext ==
  \/ \E m \in LoopMessageIds, media \in BOOLEAN : Arrive(m, media)
  \/ \E m \in LoopMessageIds : StartHandler(m)
  \/ \E m \in LoopMessageIds, locked \in BOOLEAN : Persist(m, locked)
  \/ \E m \in LoopMessageIds : LockSleep(m)
  \/ \E m \in LoopMessageIds, got_path \in BOOLEAN : DownloadDone(m, got_path)
  \/ \E m \in LoopMessageIds : RedownloadDone(m)
  \/ \E m \in LoopMessageIds, found \in BOOLEAN : Inference(m, found)
  \/ \E m \in LoopMessageIds : FetchPrice(m)
  \/ \E m \in LoopMessageIds, enough \in BOOLEAN : GetBalance(m, enough)
  \/ \E m \in LoopMessageIds, ok \in BOOLEAN : Order(m, ok)
  \/ \E m \in LoopMessageIds : RetrySleep(m)
  \/ Heartbeat

LoopSpec == LoopInit /\ [][LoopNext]_vars

\* ================================================================ claims
\* Credentials of the selected venue are set and its adapter can be built
ValidVenueConfig == cfg.creds_ok /\ (cfg.exchange = "bitunix" => cfg.proxy_ok)

CallRows == RowsOf(positions, call.key)
OrdersPlaced == CountOps(call.log, {"market_order"})
IsAnomalousCall == is_anomalous_signal(call.sig.token, call.sig.position_type)

\* What fetch_price returned to determine_order_quantity in the running call
\* (None also when the call made no price fetch)
RECURSIVE FirstFetch(_)
FirstFetch(log) ==
  IF log = <<>> THEN None
  ELSE IF Head(log).op = "fetch_price" THEN Head(log).ret
  ELSE FirstFetch(Tail(log))

\* All prices the adapter returned in the running call
FetchedPrices ==
  { call.log[i].ret : i \in { j \in 1..Len(call.log) : call.log[j].op = "fetch_price" } }

\* C1: for each (channel id, message id), over all deliveries, re-deliveries
\* and retries, at most one order placement call is accepted by the adapter.
C1_AtMostOneAcceptedOrder == \A k \in Keys : accepted[k] <= 1

\* C2: once a row has a terminal status, no later operation changes its status.
C2_TerminalStatusIsFinal ==
  [][\A r \in positions :
       r.status \in TerminalStatuses =>
         \A r2 \in positions' : r2.id = r.id => r2.status = r.status]_vars

\* The status the running call's outcome stands for: the local rejection of a
\* non-positive quantity, else the result returned by the venue step
CallOutcomeStatus ==
  IF ~QtyPositive(call.quantity) THEN "rejected_no_quantity"
  ELSE IF call.result = None THEN "pending"
  ELSE IF call.result[1].success THEN "submitted"
  ELSE call.result[1].status

\* C3: there is never more than one row per (chat_id, message_id); after a
\* call with auto-execution enabled and a valid venue configuration, the first
\* or a repeated one, exactly one row exists for the key and its status is the
\* one determined by that call's outcome.
C3_OneRowPerKeyLastCallDecides ==
  /\ \A k \in Keys : Cardinality(RowsOf(positions, k)) <= 1
  /\ (pc = "done" /\ cfg.enable_auto_execution /\ ValidVenueConfig) =>
       /\ Cardinality(CallRows) = 1
       /\ \A r \in CallRows : r.status = CallOutcomeStatus

\* A second call for a key whose first call ended submitted has ended with
\* another status, and the key still has one row.
C3_Witness ==
  /\ pc = "done" /\ cfg.enable_auto_execution /\ ValidVenueConfig
  /\ accepted[call.key] = 1
  /\ Cardinality(CallRows) = 1
  /\ \A r \in CallRows : r.status = "rejected_no_quantity"

\* C4: with auto-execution enabled, every adapter call of a message (price
\* fetch, balance fetch, leverage change, order placement) comes after the
\* write of the pending row of that (channel id, message id).
C4_PendingBeforeExchangeCall ==
  cfg.enable_auto_execution =>
    \A i \in 1..Len(call.log) :
      call.log[i].op \in ExchangeOps =>
        /\ \E j \in 1..(i - 1) : call.log[j].op = "upsert_pending"
        /\ CallRows # {}

C4_Witness ==
  /\ cfg.enable_auto_execution
  /\ CountOps(call.log, {"fetch_price"}) > 0
  /\ CountOps(call.log, {"get_available_balance"}) > 0
  /\ CountOps(call.log, {"change_leverage"}) > 0
  /\ CountOps(call.log, {"market_order"}) > 0

\* C5: every row written as pending reaches a terminal status: when the call
\* is over (returned, or left by an exception) no row is pending.
C5_NoPendingRowAfterCall ==
  pc \in {"idle", "done"} => \A r \in positions : r.status # "pending"

\* C6: for an anomalous signal no exchange interaction takes place: no price
\* fetch, no balance fetch, no leverage change and no order placement.
C6_AnomalousNoExchangeCall ==
  (cfg.enable_auto_execution /\ pc # "idle" /\ IsAnomalousCall) =>
    CountOps(call.log, ExchangeOps) = 0

\* C7: with auto-execution enabled and a valid venue configuration, processing
\* an anomalous signal ends with the row of the message in rejected_anomaly.
C7_AnomalousEndsRejectedAnomaly ==
  (pc = "done" /\ cfg.enable_auto_execution /\ ValidVenueConfig /\ IsAnomalousCall) =>
    /\ CallRows # {}
    /\ \A r \in CallRows : r.status = "rejected_anomaly"

\* C8: on every venue, when the signal carries an entry price and the current
\* market price obtained deviates from it by more than the maximum fraction,
\* no order is placed and the row ends in rejected_deviation.  Stated for the
\* calls that reach the venue step (a valid signal, a positive quantity) and
\* in which every price obtained deviates.
C8_DeviationRejected ==
  (/\ cfg.enable_auto_execution /\ ValidVenueConfig
   /\ ~IsAnomalousCall
   /\ QtyPositive(call.quantity)
   /\ FetchedPrices # {}
   /\ \A p \in FetchedPrices : price_deviation_too_high(call.sig.entry_price, p)) =>
    /\ OrdersPlaced = 0
    /\ pc = "done" => \A r \in CallRows : r.status = "rejected_deviation"

\* determine_order_quantity has returned to submit_position_if_enabled
SizingReturned == pc \in {"sized", "execute", "order", "bitunix_order", "terminal_write"}

\* 0.9 * B / P when the token is present, P > 0, B > 0 and 0.9 * B >= 10; else 0
ExpectedQuantity(token, P, B) ==
  IF /\ TruthySeq(token)
     /\ P # None /\ P[1] > 0
     /\ B # None /\ B[1] > 0
     /\ 9 * B[1] >= 10 * 10
  THEN [num |-> 9 * B[1], den |-> 10 * P[1]]
  ELSE ZeroQty

\* The quantity of every order sent in the running call is the sized quantity
OrdersCarrySizedQuantity ==
  \A i \in 1..Len(call.log) :
    call.log[i].op = "market_order" => QtyEq(call.log[i].amount, call.quantity)

C10_LowBalanceRejectedNoQuantity ==
  (/\ cfg.enable_auto_execution /\ ValidVenueConfig
   /\ pc # "idle"
   /\ call.balance # None /\ 9 * call.balance[1] < 10 * 10) =>
    /\ OrdersPlaced = 0
    /\ pc = "done" =>
         /\ Cardinality(CallRows) = 1
         /\ \A r \in CallRows : r.status = "rejected_no_quantity"

\* A call with balance 5 and a live price of 100 has ended rejected_no_quantity
C10_Witness ==
  /\ pc = "done" /\ cfg.enable_auto_execution /\ ValidVenueConfig
  /\ call.balance = Some(5)
  /\ FirstFetch(call.log) = Some(100)
  /\ CountOps(call.log, {"get_available_balance"}) = 1
  /\ \A r \in CallRows : r.status = "rejected_no_quantity"
  /\ CallRows # {}

\* ------------------------------------------------------ claims C11 .. C20
\* The order calls of the running call, in order
OrderLog == SelectSeq(call.log, LAMBDA e : e.op = "market_order")
\* The order calls and the sleeps between them, in order
OrderAndSleepLog == SelectSeq(call.log, LAMBDA e : e.op \in {"market_order", "sleep"})
\* An order call that failed with a transient error (one execute_signal retries)
FailedTransient(e) == ~e.ret.success /\ is_safe_retry(e.ret.error)
\* The exception class of a failed order call: the first word of its error text
ErrorClass(e) == e.ret.error[1][1]

\* C11: the order loop of execute_signal makes at most 3 order calls in total;
\* when all 3 fail with transient errors no fourth call is made and the result
\* of the third is returned as it is: success = false, the adapter's status
\* and error.
C11_RetryLoopAtMostThreeCalls ==
  /\ Len(OrderLog) <= 3
  /\ (/\ Len(OrderLog) = 3
      /\ \A i \in 1..3 : FailedTransient(OrderLog[i])) =>
       /\ pc \in {"terminal_write", "done"}
       /\ call.result = Some(OrderLog[3].ret)
       /\ ~call.result[1].success
       /\ call.result[1].status = "error"
       /\ call.result[1].error = OrderLog[3].ret.error

\* Three order calls were made and all three failed with a network error
C11_Witness ==
  /\ pc = "terminal_write"
  /\ Len(OrderLog) = 3
  /\ \A i \in 1..3 : FailedTransient(OrderLog[i])
  /\ call.attempts = 3

\* C12: when the order call fails with a transient network error on attempts 1
\* and 2 and succeeds on attempt 3, exactly 3 order calls are made, 1 second is
\* slept before attempt 2 and 2 seconds before attempt 3, and the row ends in
\* status submitted.
C12_TwoNetworkErrorsThenSuccess ==
  (/\ Len(OrderLog) >= 3
   /\ ~OrderLog[1].ret.success /\ OrderLog[1].ret.error = Some(ERR_NETWORK)
   /\ ~OrderLog[2].ret.success /\ OrderLog[2].ret.error = Some(ERR_NETWORK)
   /\ OrderLog[3].ret.success) =>
    /\ Len(OrderLog) = 3
    /\ [i \in 1..Len(OrderAndSleepLog) |-> OrderAndSleepLog[i].op]
         = <<"market_order", "sleep", "market_order", "sleep", "market_order">>
    /\ OrderAndSleepLog[2].ret = 1
    /\ OrderAndSleepLog[4].ret = 2
    /\ pc \in {"terminal_write", "done"}
    /\ pc = "done" =>
         /\ CallRows # {}
         /\ \A r \in CallRows : r.status = "submitted" /\ r.error = None

\* The call that failed twice with a network error and succeeded on the third
\* attempt is over and its row is submitted
C12_Witness ==
  /\ pc = "done"
  /\ Len(OrderLog) = 3
  /\ OrderLog[1].ret.error = Some(ERR_NETWORK)
  /\ OrderLog[2].ret.error = Some(ERR_NETWORK)
  /\ OrderLog[3].ret.success
  /\ \E r \in CallRows : r.status = "submitted"

\* C13: a failed order call whose error is permanent (its class is none of
\* network error, rate limit, venue unavailable, timeout), an order rejected
\* by the venue included, is never retried, whatever its message text: it is
\* the only order call of the processing and its status and error are the
\* result reported.
C13_PermanentErrorNeverRetried ==
  \A i \in 1..Len(OrderLog) :
    (~OrderLog[i].ret.success /\ ErrorClass(OrderLog[i]) \notin SAFE_RETRY_ERRORS) =>
      /\ i = Len(OrderLog)
      /\ pc \in {"terminal_write", "done"}
      /\ call.result = Some(OrderLog[i].ret)

\* C14: with exchange = bitunix, an order call that fails with a transient
\* error is retried as with exchange = xt: the processing goes to its terminal
\* write after a transient failure only when 3 order calls have been made.
C14_BitunixRetriesTransient ==
  (/\ cfg.exchange = "bitunix"
   /\ pc \in {"terminal_write", "done"}
   /\ Len(OrderLog) > 0
   /\ FailedTransient(OrderLog[Len(OrderLog)])) =>
    Len(OrderLog) = 3

\* C15: with auto-execution enabled and the credentials of the selected venue
\* missing, processing a message ends with a row for its (chat_id, message_id)
\* whose status is rejected_config, also when the key had no row before.
C15_InvalidConfigRowRejectedConfig ==
  (pc = "done" /\ cfg.enable_auto_execution /\ ~cfg.creds_ok) =>
    /\ CallRows # {}
    /\ \A r \in CallRows : r.status = "rejected_config"

\* C17: after the venue step returned a result, the terminal write uses it: on
\* failure the row's status and error are the result's status and error; on
\* success the row's status is submitted and its error is null.
C17_TerminalWriteUsesResult ==
  (pc = "done" /\ call.result # None) =>
    /\ CallRows # {}
    /\ \A r \in CallRows :
         IF call.result[1].success
         THEN r.status = "submitted" /\ r.error = None
         ELSE r.status = call.result[1].status /\ r.error = call.result[1].error

\* A call whose order was rejected by the venue has written the venue's error
\* to its row, while the row of an earlier successful call is submitted
C17_Witness ==
  /\ pc = "done"
  /\ call.result # None
  /\ OrderLog # <<>>
  /\ call.result[1].error = Some(ERR_REJECTED)
  /\ \E r \in CallRows : r.status = "error" /\ r.error = Some(ERR_REJECTED)
  /\ \E r \in positions : r.status = "submitted" /\ r.error = None

\* C18: in every reachable state the status of every row is one of pending,
\* submitted, rejected_anomaly, rejected_deviation, rejected_no_price,
\* rejected_no_quantity, rejected_config, error, whatever the adapter returns.
C18_StatusInDeclaredSet ==
  \A r \in positions :
    r.status \in {"pending", "submitted", "rejected_anomaly", "rejected_deviation",
                  "rejected_no_price", "rejected_no_quantity", "rejected_config",
                  "error"}

\* The adapter accepted an order and reported its status as "filled"; the row
\* of the call is submitted
C18_Witness ==
  /\ pc = "done"
  /\ call.result # None
  /\ call.result[1].success
  /\ call.result[1].status = "filled"
  /\ \E r \in CallRows : r.status = "submitted"

\* The event being handled belongs to a chat without ChannelConfig, or to one
\* whose ChannelConfig is disabled
EventNotMonitored ==
  /\ hpc # "idle"
  /\ \/ channels[event.chat_id] = None
     \/ ~channels[event.chat_id][1].enabled

\* The ChannelConfig of the event's chat is present and enabled
EventMonitored ==
  /\ hpc # "idle"
  /\ channels[event.chat_id] # None
  /\ channels[event.chat_id][1].enabled

\* The extraction functions the running handler has called, in order
PathsTaken ==
  SelectSeq(hlog, LAMBDA e : e.op \in {"process_single_message_signal_extraction",
                                       "process_windowed_signal_extraction"})

\* C16: an exception raised while persisting or processing a message (storage,
\* media download, inference result, sizing, adapter) never leaves
\* on_new_message: it is caught and logged, the handler returns, the channel
\* table is left as it was, so that the next message is routed as before.
C16_ExceptionNeverLeavesHandler ==
  [][/\ ~propagated'
     /\ channels' = channels
     /\ hpc = "except" => (hpc' = "returned" /\ caught' = caught + 1)
     /\ (hpc = "in_submit" /\ pc = "done" /\ call.raised) =>
          (hpc' = "returned" /\ caught' = caught + 1)
     /\ hpc = "returned" => (hpc' = "idle" /\ pc' = "idle")]_vars

\* After a message whose processing raised, a second message has been
\* persisted, extracted, saved as a trade signal and submitted
C16_Witness ==
  /\ handled = 2 /\ caught = 1
  /\ hpc = "returned"
  /\ \A i \in 1..Len(hlog) : hlog[i].op # "exception_logged"
  /\ \E i \in 1..Len(hlog) : hlog[i].op = "submit_position_if_enabled"
  /\ \E m \in messages : <<m.chat_id, m.message_id>> = EventKey
  /\ \E t \in trade_signals : <<t.chat_id, t.message_id>> = EventKey
  /\ \E r \in RowsOf(positions, EventKey) : r.status = "submitted"

\* C19: a message whose chat has no ChannelConfig, or a disabled one, is
\* dropped: no message row, no trade signal and no position row is written, no
\* call other than the warning log is made (no inference call), and no
\* exception is raised.
C19_UnmonitoredMessageDropped ==
  [][EventNotMonitored' =>
       /\ UNCHANGED <<messages, trade_signals, positions>>
       /\ hpc' \in {"route", "returned"}
       /\ pc' = "idle"
       /\ \A i \in 1..Len(hlog') : hlog'[i].op = "warning"
       /\ caught' = caught
       /\ ~propagated']_vars

\* The second message delivered, of a channel configured but disabled, has
\* been dropped with a warning
C19_Witness ==
  /\ EventNotMonitored
  /\ channels[event.chat_id] # None
  /\ hpc = "returned"
  /\ handled = 2
  /\ hlog = <<HEv("warning", {})>>
  /\ messages = {} /\ trade_signals = {} /\ positions = {}

\* C20: a message of an enabled channel goes to exactly one processing path,
\* the one of the channel's policy: SINGLE_MESSAGE runs the single-message
\* extraction, on that message alone; WINDOWED_MESSAGES runs the windowed
\* extraction; never both and never the other one.
C20_DispatchByPolicy ==
  EventMonitored =>
    LET policy == channels[event.chat_id][1].policy
        expected == IF policy = "single_message"
                    THEN "process_single_message_signal_extraction"
                    ELSE "process_windowed_signal_extraction"
    IN
    /\ Len(PathsTaken) <= 1
    /\ \A i \in 1..Len(PathsTaken) : PathsTaken[i].op = expected
    /\ hpc \in {"single", "windowed", "save", "submit", "in_submit"} =>
         Len(PathsTaken) = 1
    /\ (/\ hpc = "returned" /\ Len(hlog) >= 2
        /\ hlog[1].op = "persist_message" /\ hlog[2].op # "exception_logged") =>
         Len(PathsTaken) = 1
    /\ hpc = "single" => policy = "single_message"
    /\ hpc = "windowed" => policy = "windowed_messages"
    /\ policy = "single_message" =>
         \A i \in 1..Len(hlog) :
           hlog[i].op = "extract_signal" => hlog[i].keys = {EventKey}

\* A message of a WINDOWED_MESSAGES channel went through the windowed
\* extraction, with a window of two messages, and its signal was saved
C20_Witness ==
  /\ EventMonitored
  /\ channels[event.chat_id][1].policy = "windowed_messages"
  /\ hpc = "returned"
  /\ [i \in 1..Len(PathsTaken) |-> PathsTaken[i].op]
       = <<"process_windowed_signal_extraction">>
  /\ \E i \in 1..Len(hlog) :
       hlog[i].op = "extract_signal" /\ Cardinality(hlog[i].keys) = 2
  /\ \E t \in trade_signals : <<t.chat_id, t.message_id>> = EventKey /\ t.windowed

\* ------------------------------------------------------ claims C21 .. C30

\* Row a is later than row b by (timestamp, message id)
Later(a, b) ==
  \/ a.date_utc > b.date_utc
  \/ a.date_utc = b.date_utc /\ a.message_id > b.message_id

\* The rows of the channel of the last window read, in the table it read
ReadChannelRows == { m \in last_read.table : m.chat_id = last_read.chat_id }

\* C21: for a channel with n persisted messages and a window size W >= 1, the
\* window read returns exactly min(W, n) messages, all of that channel, which
\* are the W greatest by (timestamp, message id), listed in ascending order.
C21_WindowIsTheLatestAscending ==
  (last_read.done /\ last_read.window_size >= 1) =>
    LET w == last_read.recent
        n == Cardinality(ReadChannelRows)
        expected == IF last_read.window_size < n THEN last_read.window_size ELSE n
    IN
    /\ Len(w) = expected
    /\ \A i \in 1..Len(w) : w[i] \in ReadChannelRows
    /\ \A i, j \in 1..Len(w) : i < j => Later(w[j], w[i])
    /\ \A m \in ReadChannelRows :
         (\A i \in 1..Len(w) : w[i] # m) => \A i \in 1..Len(w) : Later(w[i], m)

\* A window of one message was read from a channel with two messages of the
\* same timestamp, while the table also holds a later message of another
\* channel: the message with the greater id was returned
C21_Witness ==
  /\ last_read.done /\ last_read.window_size = 1 /\ last_read.chat_id = 1
  /\ \E a, b \in ReadChannelRows :
       /\ a.message_id < b.message_id /\ a.date_utc = b.date_utc
       /\ last_read.recent = <<b>>
  /\ \E m \in last_read.table : m.chat_id = 2 /\ m.date_utc = 2
  /\ \A m \in ReadChannelRows : m.date_utc = 1

\* The text of a row is not empty after trimming
HasText(m) == \E i \in 1..Len(m.text) : m.text[i] \notin Whitespace

\* C22: the combined text of a window holds one tagged part per message whose
\* text is non-empty after trimming, in the order of the window, each tagged
\* with the id and the timestamp of its message, and nothing for a message
\* with empty text.
C22_CombinedTextTagsNonEmptyMessages ==
  last_read.done =>
    LET kept == SelectSeq(last_read.recent, HasText)
        parts == last_read.combined
    IN
    /\ Len(parts) = Len(kept)
    /\ \A i \in 1..Len(parts) :
         /\ parts[i].message_id = kept[i].message_id
         /\ parts[i].date_utc = kept[i].date_utc
         /\ parts[i].text # <<>>
         /\ parts[i].text = strip(kept[i].text)

\* The window (1, "A"), (2, empty or blank), (3, " B\n") was combined: a part
\* tagged 1, then a part tagged 3 with the text "B"
C22_Witness ==
  /\ last_read.done /\ Len(last_read.recent) = 3
  /\ [i \in 1..3 |-> last_read.recent[i].message_id] = <<1, 2, 3>>
  /\ last_read.recent[1].text = <<"A">>
  /\ ~HasText(last_read.recent[2])
  /\ last_read.recent[3].text = <<" ", "B", "\n">>
  /\ [i \in 1..Len(last_read.combined) |-> last_read.combined[i].message_id] = <<1, 3>>
  /\ last_read.combined[2].text = <<"B">>

\* The operations of the handler's log
HandlerOps == { hlog[i].op : i \in 1..Len(hlog) }

\* The window read of the running handler found no message
EmptyWindowRead ==
  \E i \in 1..Len(hlog) : hlog[i].op = "_get_recent_messages" /\ hlog[i].keys = {}

\* C23: in windowed processing, when the window read finds no messages, the
\* inference service is not called, no trade signal is saved, and
\* submit_position_if_enabled is not called (so no SubmittedPosition row is
\* written and no exchange call is made).
C23_EmptyWindowSkipsInference ==
  EmptyWindowRead =>
    /\ HandlerOps \cap {"extract_signal", "insert_trade_signal",
                        "submit_position_if_enabled"} = {}
    /\ pc = "idle" /\ call = IdleCall
    /\ channels[event.chat_id][1].window_size = 0 =>
         /\ \A t \in trade_signals : t.chat_id # event.chat_id
         /\ \A r \in positions : r.chat_id # event.chat_id

\* A message of a windowed channel was stored, the window read (window size 0)
\* returned no message, and the handler returned without an exception
C23_Witness ==
  /\ hpc = "returned" /\ EmptyWindowRead
  /\ "exception_logged" \notin HandlerOps
  /\ \E m \in messages : <<m.chat_id, m.message_id>> = EventKey
  /\ hlog[Len(hlog)].op = "_get_recent_messages"

\* C24: window aggregation is a pure, deterministic read: it leaves the rows
\* of the message store as they are, a second aggregation over the same rows
\* gives the same window and the same combined text, and the rows returned to
\* a window are returned again to a window that is at least as large.
C24_WindowReadIsPure ==
  [][ last_read'.done =>
        /\ messages' = messages
        /\ last_read'.table = messages
        /\ (last_read.done /\ last_read.chat_id = last_read'.chat_id) =>
             /\ last_read.window_size = last_read'.window_size =>
                  /\ last_read'.recent = last_read.recent
                  /\ last_read'.combined = last_read.combined
             /\ (0 <= last_read.window_size
                 /\ last_read.window_size <= last_read'.window_size) =>
                  KeysOf(last_read.recent) \subseteq KeysOf(last_read'.recent) ]_vars

\* A window of two messages was read and the table still holds every row the
\* read was given, the two returned rows included
C24_Witness ==
  /\ last_read.done /\ last_read.window_size = 2 /\ Len(last_read.recent) = 2
  /\ messages = last_read.table
  /\ Cardinality(ReadChannelRows) = 3
  /\ \A i \in 1..2 : last_read.recent[i] \in messages

\* C27: when the inference service returns null, the processing of the message
\* ends without error: the handler returns, no exception is logged or raised,
\* no trade signal row is written, no SubmittedPosition row is created or
\* changed, and submit_position_if_enabled is not called.
C27_NullInferenceEndsQuietly ==
  [][ (/\ hpc \in {"single", "windowed"}
       /\ hlog' # hlog
       /\ hlog'[Len(hlog')].op = "extract_signal"
       /\ event'.sig = None) =>
        /\ hpc' = "returned"
        /\ trade_signals' = trade_signals
        /\ positions' = positions
        /\ pc' = "idle" /\ call' = IdleCall /\ accepted' = accepted
        /\ delivered' = delivered
        /\ caught' = caught /\ ~propagated' ]_vars

\* The inference service was called for a stored message and returned null;
\* the handler has returned with no signal saved for the message
C27_Witness ==
  /\ hpc = "returned" /\ hlog # <<>>
  /\ hlog[Len(hlog)].op = "extract_signal"
  /\ event.sig = None
  /\ \E m \in messages : <<m.chat_id, m.message_id>> = EventKey
  /\ \A t \in trade_signals : <<t.chat_id, t.message_id>> # EventKey
  /\ caught = 0

\* C25: within one channel, messages are processed in arrival order: if
\* message A arrives before message B, A's inference call comes before B's
\* and A's order calls come before B's, for every interleaving of the handler
\* coroutines at their suspension points.
C25_ProcessedInArrivalOrder ==
  \A i, j \in 1..Len(arrivals) :
    i < j =>
      \A p, q \in 1..Len(trace) :
        (/\ trace[p].id = arrivals[i] /\ trace[q].id = arrivals[j]
         /\ trace[p].op = trace[q].op) => p < q

\* The operations of a message's processing named by the claim
ProcessingOps ==
  {"inference", "fetch_price", "get_balance", "order", "retry_sleep", "lock_sleep"}

\* C26: while a message is being processed (inference call, adapter price,
\* balance and order calls, the delay between order retries, the sleep between
\* storage lock retries) the heartbeat task can still be scheduled.
C26_HeartbeatSchedulableWhileProcessing ==
  \A m \in LoopMessageIds : tasks[m].pc \in ProcessingOps => ENABLED Heartbeat

\* Least and greatest element of a non-empty list of levels
Least(s) == CHOOSE x \in { s[i] : i \in 1..Len(s) } : \A i \in 1..Len(s) : x <= s[i]
Greatest(s) == CHOOSE x \in { s[i] : i \in 1..Len(s) } : \A i \in 1..Len(s) : x >= s[i]

\* The order calls of the running call
MarketOrders == { i \in 1..Len(call.log) : call.log[i].op = "market_order" }

\* C28: on Bitunix the protective levels sent with the order are, for a long,
\* take-profit = least take-profit level and stop-loss = greatest stop-loss
\* level; for a short, take-profit = greatest and stop-loss = least; a level
\* is omitted exactly when its list is empty.
C28_BitunixProtectiveLevels ==
  cfg.exchange = "bitunix" =>
    \A i \in MarketOrders :
      LET sent == call.log[i].params
          sig == call.sig
      IN
      /\ sent.tp_price = None <=> sig.take_profits = <<>>
      /\ sent.sl_price = None <=> sig.stop_losses = <<>>
      /\ (sig.position_type = Some("long") /\ sig.take_profits # <<>>) =>
           sent.tp_price = Some(Least(sig.take_profits))
      /\ (sig.position_type = Some("long") /\ sig.stop_losses # <<>>) =>
           sent.sl_price = Some(Greatest(sig.stop_losses))
      /\ (sig.position_type = Some("short") /\ sig.take_profits # <<>>) =>
           sent.tp_price = Some(Greatest(sig.take_profits))
      /\ (sig.position_type = Some("short") /\ sig.stop_losses # <<>>) =>
           sent.sl_price = Some(Least(sig.stop_losses))

\* A short with stop-losses 115, 110 and take-profits 80, 90 was sent to
\* Bitunix with take-profit 90 and stop-loss 110
C28_Witness ==
  /\ cfg.exchange = "bitunix"
  /\ call.sig.position_type = Some("short")
  /\ call.sig.stop_losses = <<115, 110>> /\ call.sig.take_profits = <<80, 90>>
  /\ \E i \in MarketOrders :
       call.log[i].params = [tp_price |-> Some(90), sl_price |-> Some(110)]

\* C29: with auto-execution disabled, processing a signal creates no
\* SubmittedPosition row, changes no existing row, and makes no order
\* placement call.
C29_DryRunWritesNothing ==
  [][ ~cfg.enable_auto_execution =>
        /\ positions' = positions
        /\ accepted' = accepted
        /\ CountOps(call'.log, {"market_order", "change_leverage"} \cup WriteOps) = 0 ]_vars

\* A dry run on the key of a row written by an earlier run computed a positive
\* quantity from the live price and the balance, and the row is as it was
C29_Witness ==
  /\ ~cfg.enable_auto_execution
  /\ pc = "done" /\ call.key = <<1, 1>>
  /\ positions = EarlierRow
  /\ CountOps(call.log, {"fetch_price"}) = 1
  /\ QtyPositive(call.quantity)

\* C30: the symbol stored in the SubmittedPosition row of a message is the
\* resolved trading symbol: the symbol the price was fetched for and the
\* order was placed with.
C30_RowSymbolIsResolvedSymbol ==
  \A r \in CallRows :
    \A i \in 1..Len(call.log) :
      (/\ call.log[i].op \in {"fetch_price", "market_order"}
       /\ CountOps(SubSeq(call.log, 1, i), {"upsert_pending"}) = 1) =>
        call.log[i].symbol = r.symbol

\* ------------------------------------------------- helpers called directly
\* Direct calls of is_anomalous_signal, price_deviation_too_high and
\* BitunixClient.market_order; applied holds the arguments and the result of
\* the last call.
TokenOfLen(n) == [i \in 1..n |-> "A"]
PureTokens == {None} \cup {Some(TokenOfLen(n)) : n \in {0, 1, 2, 3, 14, 15, 16}}
PurePositionTypes ==
  {None} \cup {Some(p) : p \in {"", "long", "LONG", "Long", "short", "SHORT",
                                "Short", "hold", "Hold"}}
PureEntries == {None} \cup {Some(x) : x \in {0 - 100, 0, 100}}
PurePrices == {None} \cup {Some(x) : x \in {0 - 1, 0, 97, 98, 100, 102, 103}}
PureLeverages == {None, Some(5)}
PureStopLosses == {<<>>, <<90>>, <<90, 80>>}
PureTakeProfits == {<<>>, <<110>>, <<110, 120>>}
\* tpPrice / slPrice given by the caller next to the generic hints: none, or
\* the pair <<tpPrice, slPrice>>
PureExplicitLevels == {<<>>, <<111, 89>>}
\* params of a market_order call: the generic hints, with the explicit keys
\* when the caller gives them
market_order_params(leverage, stop_losses, take_profits, explicit) ==
  LET generic == build_futures_order_params(leverage, stop_losses, take_profits)
  IN  IF explicit = <<>> THEN generic
      ELSE [k \in DOMAIN generic \cup {"tpPrice", "slPrice"} |->
              IF k = "tpPrice" THEN Some(explicit[1])
              ELSE IF k = "slPrice" THEN Some(explicit[2])
              ELSE generic[k]]

PureUnchanged == UNCHANGED <<pvars, hvars, last_read, lvars, sql, backfill>>

ApplyIsAnomalous(token, position_type) ==
  /\ applied' = [NotApplied EXCEPT
                   !.fn = "is_anomalous_signal",
                   !.token = token, !.position_type = position_type,
                   !.result = is_anomalous_signal(token, position_type)]
  /\ PureUnchanged

ApplyPriceDeviation(detected_entry, current_price) ==
  /\ applied' = [NotApplied EXCEPT
                   !.fn = "price_deviation_too_high",
                   !.detected_entry = detected_entry,
                   !.current_price = current_price,
                   !.result = price_deviation_too_high(detected_entry, current_price)]
  /\ PureUnchanged

\* BitunixClient.market_order up to the call of place_order
ApplyMarketOrder(params) ==
  /\ applied' = [NotApplied EXCEPT
                   !.fn = "market_order",
                   !.params = params,
                   !.levels = bitunix_order_levels(params)]
  /\ PureUnchanged

PureInit ==
  /\ Init
  /\ cfg.exchange = "xt" /\ cfg.creds_ok /\ cfg.enable_auto_execution

PureNext ==
  \/ \E t \in PureTokens, p \in PurePositionTypes : ApplyIsAnomalous(t, p)
  \/ \E e \in PureEntries, c \in PurePrices : ApplyPriceDeviation(e, c)
  \/ \E l \in PureLeverages, sl \in PureStopLosses, tp \in PureTakeProfits,
        explicit \in PureExplicitLevels :
       ApplyMarketOrder(market_order_params(l, sl, tp, explicit))

PureSpec == PureInit /\ [][PureNext]_vars

\* ------------------------------------------------- sql_execute_with_retry
\* One call of sql_execute_with_retry after another. sql.log holds the
\* execute attempts with what each raised, and the sleeps, in order.
MaxSqlRetries == 2

\* What conn.execute raises: nothing, an OperationalError with its message
\* (as the parts that matter to the substring tests), or another sqlite3 error
SqlResults ==
  {[raised |-> "none", msg |-> <<>>],
   [raised |-> "OperationalError", msg |-> <<"database is locked">>],
   [raised |-> "OperationalError", msg |-> <<"database table is locked", ": messages">>],
   [raised |-> "OperationalError", msg |-> <<"disk i/o error">>],
   [raised |-> "IntegrityError", msg |-> <<"unique constraint failed">>]}

\* Which statement sleeps: time.sleep with the loop running, asyncio.sleep
\* on a stopped loop, or time.sleep after get_event_loop raised
SleepKinds == {"time.sleep", "asyncio.sleep", "time.sleep after error"}

\* "x in msg" for the parts of a message
InMsg(part, msg) == \E i \in 1..Len(msg) : msg[i] = part

\* the retry test with one retry too many
lock_retry_once_more(res, attempts, busy_retries) ==
  /\ res.raised = "OperationalError"
  /\ InMsg("database is locked", res.msg) \/ InMsg("database table is locked", res.msg)
  /\ attempts <= busy_retries

\* sqlite.py 103-107: the except clause and its condition
lock_retry(res, attempts, busy_retries) ==
  /\ res.raised = "OperationalError"
  /\ InMsg("database is locked", res.msg) \/ InMsg("database table is locked", res.msg)
  /\ attempts < busy_retries

SqlUnchanged == UNCHANGED <<pvars, hvars, last_read, lvars, backfill, applied>>

SqlCall(busy_retries) ==
  /\ sql.pc = "idle"
  /\ sql' = [NoSql EXCEPT !.pc = "execute", !.busy_retries = busy_retries]
  /\ SqlUnchanged

\* conn.execute(sql, params) and what follows it up to the sleep
SqlExecute(res) ==
  /\ sql.pc = "execute"
  /\ LET log == Append(sql.log, [op |-> "execute", res |-> res])
     IN  IF res.raised = "none"
         THEN sql' = [sql EXCEPT !.log = log, !.pc = "done", !.outcome = "returned"]
         ELSE IF lock_retry(res, sql.attempts, sql.busy_retries)
         THEN sql' = [sql EXCEPT !.log = log, !.pc = "sleep",
                                 !.attempts = sql.attempts + 1]
         ELSE sql' = [sql EXCEPT !.log = log, !.pc = "done", !.outcome = "raised"]
  /\ SqlUnchanged

\* sqlite.py 109-117: sleep busy_sleep_secs, then continue
SqlSleep(kind) ==
  /\ sql.pc = "sleep"
  /\ sql' = [sql EXCEPT !.log = Append(sql.log, [op |-> "sleep", res |-> [raised |-> kind, msg |-> <<>>]]),
                        !.pc = "execute"]
  /\ SqlUnchanged

\* the caller goes on
SqlDone ==
  /\ sql.pc = "done"
  /\ sql' = NoSql
  /\ SqlUnchanged

SqlInit ==
  /\ Init
  /\ cfg.exchange = "xt" /\ cfg.creds_ok /\ cfg.enable_auto_execution

SqlNext ==
  \/ \E n \in 0..MaxSqlRetries : SqlCall(n)
  \/ \E res \in SqlResults : SqlExecute(res)
  \/ \E kind \in SleepKinds : SqlSleep(kind)
  \/ SqlDone

SqlSpec == SqlInit /\ [][SqlNext]_vars

\* ------------------------------------- the event loop, a windowed channel
\* The on_new_message coroutines of one channel with the windowed policy.
\* Each coroutine stores its message, awaits the download of its media (the
\* only await that suspends before the window read), then reads the window.
WindowedDates == {1, 2}
WindowedSizes == {1, 2}
WindowedChat == 1

WindowedUnchanged ==
  UNCHANGED <<pvars, yvars, hb, channels, trade_signals, hpc, event, hlog,
              propagated, caught, handled>>

\* messages.py 134-139: message_to_record and upsert_message, then "await
\* download_media_if_any"; a storage error ends the handler (handlers.py 62)
WindowedPersist(m, date, stored) ==
  /\ holder = m /\ tasks[m].pc = "persist"
  /\ IF ~stored
     THEN /\ tasks' = [tasks EXCEPT ![m].pc = "done"]
          /\ holder' = 0
          /\ UNCHANGED messages
     ELSE /\ messages' = upsert_message(messages,
                           [chat_id |-> WindowedChat, message_id |-> m,
                            date_utc |-> date, text |-> <<"A">>])
          /\ IF tasks[m].media
             THEN tasks' = [tasks EXCEPT ![m].pc = "download"] /\ holder' = 0
             ELSE tasks' = [tasks EXCEPT ![m].pc = "read"] /\ UNCHANGED holder
  /\ UNCHANGED <<arrivals, trace, last_read>>
  /\ WindowedUnchanged

\* messages.py 96: the download ended and the loop resumes the coroutine
WindowedDownloadDone(m) ==
  /\ holder = 0 /\ tasks[m].pc = "download"
  /\ tasks' = [tasks EXCEPT ![m].pc = "read"]
  /\ holder' = m
  /\ UNCHANGED <<arrivals, trace, last_read, messages>>
  /\ WindowedUnchanged

\* signal_extraction.py 85-98: the window read of the handler of message m
WindowedRead(m) ==
  /\ holder = m /\ tasks[m].pc = "read"
  /\ LET window_size == channels[WindowedChat][1].window_size
     IN  \E recent \in get_recent_messages(messages, WindowedChat, window_size) :
           last_read' = [done |-> TRUE, chat_id |-> WindowedChat,
                         window_size |-> window_size,
                         table |-> messages, recent |-> recent,
                         combined |-> combine_messages_for_analysis(recent)]
  /\ trace' = Append(trace, [op |-> "read_window", id |-> m])
  /\ tasks' = [tasks EXCEPT ![m].pc = "extract"]
  /\ UNCHANGED <<arrivals, holder, messages>>
  /\ WindowedUnchanged

\* signal_extraction.py 100-170: the rest of the extraction, which leaves the
\* messages table alone, up to the end of the handler
WindowedFinish(m) ==
  /\ holder = m /\ tasks[m].pc = "extract"
  /\ tasks' = [tasks EXCEPT ![m].pc = "done"]
  /\ holder' = 0
  /\ UNCHANGED <<arrivals, trace, last_read, messages>>
  /\ WindowedUnchanged

WindowedInit ==
  /\ cfg \in RunConfigs
  /\ cfg.exchange = "xt" /\ cfg.creds_ok /\ cfg.enable_auto_execution
  /\ positions = {}
  /\ next_id = 1
  /\ clock = 1
  /\ pc = "idle"
  /\ call = IdleCall
  /\ accepted = [k \in Keys |-> 0]
  /\ delivered = 0
  /\ \E w \in WindowedSizes :
       channels = [c \in ChatIds |->
                     Some([policy |-> "windowed_messages", enabled |-> TRUE,
                           window_size |-> w])]
  /\ HandlerInit
  /\ XInit

WindowedNext ==
  \/ \E m \in LoopMessageIds, media \in BOOLEAN : Arrive(m, media)
  \/ \E m \in LoopMessageIds : StartHandler(m)
  \/ \E m \in LoopMessageIds, d \in WindowedDates, stored \in BOOLEAN :
       WindowedPersist(m, d, stored)
  \/ \E m \in LoopMessageIds : WindowedDownloadDone(m)
  \/ \E m \in LoopMessageIds : WindowedRead(m)
  \/ \E m \in LoopMessageIds : WindowedFinish(m)

WindowedSpec == WindowedInit /\ [][WindowedNext]_vars

\* ------------------------------------------------------------- backfill
\* backfill_recent for the channel, at start-up and after every reconnect.
\* The retry loop of backfill_recent has no limit; MaxBackfillRetries caps the
\* errors and the flood waits of one call.
MaxBackfillRetries == 2
BackfillLimits == {0, 1, 2}
BackfillOutcomes == {"saved", "storage_error", "download_error", "flood_wait"}

\* The signal row of an earlier run
EarlierSignal ==
  {[chat_id |-> 1, message_id |-> 1,
    sig |-> Sig(Some(TOK_BTC), Some("long"), Some(100), Some(10), <<90, 95>>, <<110, 120>>),
    windowed |-> FALSE]}

BackfillUnchanged ==
  UNCHANGED <<pvars, last_read, lvars, sql, applied, channels, trade_signals,
              hpc, event, hlog, propagated, caught, handled>>

\* backfill.py 15-31: the tests of limit and of the channel configuration
BackfillStart(chat_id, limit) ==
  /\ backfill.pc = "idle"
  /\ IF limit <= 0 \/ get_channel_config(channels, chat_id) = None
     THEN backfill' = [NoBackfill EXCEPT !.pc = "done", !.limit = limit]
     ELSE backfill' = [NoBackfill EXCEPT !.pc = "iter", !.limit = limit]
  /\ UNCHANGED messages
  /\ BackfillUnchanged

\* a backfill step that also stores a trade signal for the message
BackfillMessage_extracting(rec, outcome) ==
  /\ backfill.pc = "iter" /\ backfill.fetched < backfill.limit
  /\ outcome \in {"storage_error", "download_error"} =>
       backfill.attempts < MaxBackfillRetries
  /\ outcome = "flood_wait" => backfill.floods < MaxBackfillRetries
  /\ messages' = IF outcome \in {"saved", "download_error"}
                 THEN upsert_message(messages, rec) ELSE messages
  /\ trade_signals' =
       IF outcome = "saved"
       THEN insert_trade_signal(trade_signals,
              [chat_id |-> rec.chat_id, message_id |-> rec.message_id,
               sig |-> Sig(None, Some("long"), None, None, <<>>, <<>>),
               windowed |-> FALSE])
       ELSE trade_signals
  /\ backfill' =
       CASE outcome = "saved" -> [backfill EXCEPT !.fetched = @ + 1]
         [] outcome = "flood_wait" ->
              [backfill EXCEPT !.pc = "sleep", !.floods = @ + 1]
         [] OTHER -> [backfill EXCEPT !.pc = "sleep", !.attempts = @ + 1]
  /\ UNCHANGED <<pvars, last_read, lvars, sql, applied, channels,
                 hpc, event, hlog, propagated, caught, handled>>

\* backfill.py 34-64: iter_messages yields the next message and
\* persist_message stores it; a FloodWaitError or any other error leaves the
\* iteration for the sleep of its except clause
BackfillMessage(rec, outcome) ==
  /\ backfill.pc = "iter" /\ backfill.fetched < backfill.limit
  /\ outcome \in {"storage_error", "download_error"} =>
       backfill.attempts < MaxBackfillRetries
  /\ outcome = "flood_wait" => backfill.floods < MaxBackfillRetries
  /\ messages' = IF outcome \in {"saved", "download_error"}
                 THEN upsert_message(messages, rec) ELSE messages
  /\ backfill' =
       CASE outcome = "saved" -> [backfill EXCEPT !.fetched = @ + 1]
         [] outcome = "flood_wait" ->
              [backfill EXCEPT !.pc = "sleep", !.floods = @ + 1]
         [] OTHER -> [backfill EXCEPT !.pc = "sleep", !.attempts = @ + 1]
  /\ BackfillUnchanged

\* backfill.py 52, 64: the sleep ended; "while True" starts the iteration again
BackfillSleep ==
  /\ backfill.pc = "sleep"
  /\ backfill' = [backfill EXCEPT !.pc = "iter", !.fetched = 0]
  /\ UNCHANGED messages
  /\ BackfillUnchanged

\* backfill.py 43-46: the iteration ended, at the limit or at the channel's
\* first message
BackfillComplete ==
  /\ backfill.pc = "iter"
  /\ backfill' = [backfill EXCEPT !.pc = "done"]
  /\ UNCHANGED messages
  /\ BackfillUnchanged

\* runner.py 150: run_forever goes on; the next backfill follows a reconnect
BackfillReturn ==
  /\ backfill.pc = "done"
  /\ backfill' = NoBackfill
  /\ UNCHANGED messages
  /\ BackfillUnchanged

BackfillInit ==
  /\ cfg \in RunConfigs
  /\ cfg.exchange = "xt" /\ cfg.creds_ok /\ cfg.enable_auto_execution
  /\ positions \in {{}, EarlierRow}
  /\ next_id = Cardinality(positions) + 1
  /\ clock = 1
  /\ pc = "idle"
  /\ call = IdleCall
  /\ accepted = [k \in Keys |-> 0]
  /\ delivered = 0
  /\ channels \in ChannelMaps
  /\ messages = {}
  /\ trade_signals \in {{}, EarlierSignal}
  /\ hpc = "idle"
  /\ event = IdleEvent
  /\ hlog = <<>>
  /\ propagated = FALSE
  /\ caught = 0
  /\ handled = 0
  /\ XInit

BackfillNext ==
  \/ \E c \in ChatIds, limit \in BackfillLimits : BackfillStart(c, limit)
  \/ \E k \in Keys, t \in HandlerTexts, outcome \in BackfillOutcomes :
       BackfillMessage([chat_id |-> k[1], message_id |-> k[2], date_utc |-> k[2],
                        text |-> t], outcome)
  \/ BackfillSleep
  \/ BackfillComplete
  \/ BackfillReturn

BackfillSpec == BackfillInit /\ [][BackfillNext]_vars

\* ------------------------------------------------------ claims C31 .. C39

\* C31: the order id of a SubmittedPosition row is null only until the order
\* is accepted: a row with status submitted holds the non-null order id the
\* adapter returned.
C31_SubmittedRowHasOrderId ==
  \A r \in positions : r.status = "submitted" => r.order_id # None

\* Number of entries of the log with the operation
SqlCount(op) == Cardinality({i \in 1..Len(sql.log) : sql.log[i].op = op})
\* The attempt failed on a locked database or table
LockError(res) ==
  /\ res.raised = "OperationalError"
  /\ res.msg[1] \in {"database is locked", "database table is locked"}

\* C32: sql_execute_with_retry is a bounded retry: at most busy_retries + 1
\* execute attempts, one sleep between two attempts; it retries only on
\* "database is locked" / "database table is locked" errors, raises any other
\* error at once, raises the lock error once busy_retries retries are used
\* up, and returns after the first successful attempt.
C32_BoundedRetry ==
  LET n == Len(sql.log)
  IN  /\ SqlCount("execute") <= sql.busy_retries + 1
      /\ \A i \in 1..n :
           /\ sql.log[i].op = (IF i % 2 = 1 THEN "execute" ELSE "sleep")
           /\ (sql.log[i].op = "execute" /\ i < n) => LockError(sql.log[i].res)
           /\ (sql.log[i].op = "execute" /\ sql.log[i].res.raised = "none") =>
                (i = n /\ sql.pc = "done" /\ sql.outcome = "returned")
           /\ (sql.log[i].op = "execute" /\ sql.log[i].res.raised # "none"
                 /\ ~LockError(sql.log[i].res)) =>
                (i = n /\ sql.pc = "done" /\ sql.outcome = "raised")
           /\ (sql.log[i].op = "execute" /\ LockError(sql.log[i].res)) =>
                IF (i + 1) \div 2 <= sql.busy_retries
                THEN sql.pc \in {"sleep", "execute"} \/ i < n
                ELSE i = n /\ sql.pc = "done" /\ sql.outcome = "raised"
      /\ sql.pc = "sleep" => (n > 0 /\ sql.log[n].op = "execute")
      /\ sql.pc = "execute" => (n = 0 \/ sql.log[n].op = "sleep")
      /\ sql.pc = "done" => (n > 0 /\ sql.log[n].op = "execute")
      /\ SqlCount("sleep") = (IF sql.pc = "sleep" THEN sql.attempts - 1 ELSE sql.attempts)
      /\ sql.attempts <= sql.busy_retries

\* With busy_retries = 1 the database was locked twice: one sleep, two
\* attempts, and the lock error is raised
C32_Witness ==
  /\ sql.pc = "done" /\ sql.busy_retries = 1
  /\ sql.outcome = "raised"
  /\ SqlCount("execute") = 2 /\ SqlCount("sleep") = 1
  /\ LockError(sql.log[3].res)

\* Position in the log of the first entry with the operation (0: none)
FirstOp(log, op) ==
  IF \E i \in 1..Len(log) : log[i].op = op
  THEN CHOOSE i \in 1..Len(log) : log[i].op = op /\ \A j \in 1..(i - 1) : log[j].op # op
  ELSE 0

\* C35: on every call of submit_position_if_enabled that writes the pending
\* row and returns normally, exactly one further status write to the row
\* follows the pending write, and the row's status at return is terminal,
\* never pending, for every outcome of sizing and of the adapter call.
C35_OneTerminalWriteAfterPending ==
  (/\ pc = "done" /\ ~call.raised
   /\ CountOps(call.log, {"upsert_pending"}) >= 1) =>
    /\ CountOps(call.log, {"upsert_pending"}) = 1
    /\ CountOps(call.log, {"update_status"}) = 1
    /\ FirstOp(call.log, "upsert_pending") < FirstOp(call.log, "update_status")
    /\ call.log[Len(call.log)].op = "update_status"
    /\ CallRows # {}
    /\ \A r \in CallRows :
         /\ r.status \in TerminalStatuses
         /\ r.status = call.log[Len(call.log)].ret

\* A call wrote the pending row, placed three orders that failed, wrote the
\* error once and returned
C35_Witness ==
  /\ pc = "done" /\ ~call.raised
  /\ CountOps(call.log, {"upsert_pending"}) = 1
  /\ CountOps(call.log, {"market_order"}) = 3
  /\ CountOps(call.log, {"update_status"}) = 1
  /\ \A r \in CallRows : r.status = "error"
  /\ CallRows # {}

\* The step appends one status write to the log of the running call
StatusWriteStep ==
  /\ Len(call'.log) = Len(call.log) + 1
  /\ call'.log[Len(call'.log)].op = "update_status"

\* C38: update_position_status changes only the status, the error and the
\* updated timestamp of the existing row of (chat_id, message_id); its symbol,
\* side, quantity, price, leverage, order id and created timestamp stay, rows
\* of other keys are unchanged, and when the key has no row none is created.
C38_UpdateStatusFrame ==
  [][ StatusWriteStep =>
        /\ RowsOf(positions, call.key) = {} => positions' = positions
        /\ Cardinality(positions') = Cardinality(positions)
        /\ \A r \in positions :
             IF HasKey(r, call.key[1], call.key[2])
             THEN \E r2 \in positions' :
                    /\ r2.id = r.id
                    /\ r2.chat_id = r.chat_id /\ r2.message_id = r.message_id
                    /\ r2.symbol = r.symbol /\ r2.side = r.side
                    /\ r2.quantity = r.quantity /\ r2.price = r.price
                    /\ r2.leverage = r.leverage /\ r2.order_id = r.order_id
                    /\ r2.created_at_utc = r.created_at_utc
                    /\ r2.status = call'.log[Len(call'.log)].ret
                    /\ r2.updated_at_utc = clock
             ELSE r \in positions' ]_vars

\* The status of the row of the second message was written while the table
\* holds the row of the first: the written row keeps its created timestamp
C38_Witness ==
  /\ pc = "done" /\ call.log # <<>>
  /\ call.log[Len(call.log)].op = "update_status"
  /\ Cardinality(positions) = 2
  /\ \E r \in CallRows :
       /\ r.status \in TerminalStatuses
       /\ r.created_at_utc < r.updated_at_utc

\* The position type is long or short in any letter case
IsLongOrShort(p) == p \in {"long", "LONG", "Long", "short", "SHORT", "Short"}

\* C33: is_anomalous_signal(token, position_type) is true exactly when the
\* token is empty or missing, or the position type is missing, or the
\* position type compared case-insensitively is neither long nor short, or
\* the token length is below 2 or above 15; it is false for every token of
\* length 2..15 with position type long or short.
C33_AnomalousExactly ==
  applied.fn = "is_anomalous_signal" =>
    /\ applied.result <=>
         \/ applied.token = None
         \/ applied.token = Some(<<>>)
         \/ applied.position_type = None
         \/ ~IsLongOrShort(applied.position_type[1])
         \/ Len(applied.token[1]) < 2
         \/ Len(applied.token[1]) > 15
    /\ (/\ applied.token # None /\ applied.position_type # None
        /\ Len(applied.token[1]) \in 2..15
        /\ IsLongOrShort(applied.position_type[1])) => ~applied.result

\* A token of 15 characters with position type "Long" is not anomalous
C33_Witness ==
  /\ applied.fn = "is_anomalous_signal"
  /\ applied.token = Some(TokenOfLen(15))
  /\ applied.position_type = Some("Long")
  /\ ~applied.result

\* C34: price_deviation_too_high(entry, current, max_pct) is false whenever
\* entry or current is missing or <= 0; otherwise it is true if and only if
\* |current - entry| / entry > max_pct, so a deviation exactly equal to
\* max_pct is not rejected.
C34_DeviationStrictlyAboveLimit ==
  applied.fn = "price_deviation_too_high" =>
    IF \/ applied.detected_entry = None \/ applied.current_price = None
       \/ applied.detected_entry[1] <= 0 \/ applied.current_price[1] <= 0
    THEN ~applied.result
    ELSE LET e == applied.detected_entry[1]
             c == applied.current_price[1]
             diff == IF c >= e THEN c - e ELSE e - c
         IN  /\ applied.result <=> diff * MaxDevDen > MaxDevNum * e
             /\ diff * MaxDevDen = MaxDevNum * e => ~applied.result

\* Entry 100 and price 102 deviate by exactly the limit and are not rejected
C34_Witness ==
  /\ applied.fn = "price_deviation_too_high"
  /\ applied.detected_entry = Some(100)
  /\ applied.current_price = Some(102)
  /\ ~applied.result

\* C36: in windowed processing with window size W >= 1, the window read for a
\* triggering message m always contains m itself, for every interleaving of
\* handlers of the same channel and every order of message timestamps.
C36_WindowContainsTrigger ==
  (/\ last_read.done /\ last_read.window_size >= 1
   /\ trace # <<>> /\ trace[Len(trace)].op = "read_window") =>
    <<last_read.chat_id, trace[Len(trace)].id>> \in KeysOf(last_read.recent)

\* C37: BitunixClient.market_order called with the generic hints
\* stopLossPrice and takeProfitPrice in params, and no tpPrice / slPrice key,
\* places the order with its take-profit at takeProfitPrice and its
\* stop-loss at stopLossPrice.
C37_GenericHintsKeepTheirRole ==
  (/\ applied.fn = "market_order"
   /\ {"stopLossPrice", "takeProfitPrice"} \subseteq DOMAIN applied.params
   /\ DOMAIN applied.params \cap {"tpPrice", "slPrice"} = {}) =>
    /\ applied.levels.tp_price = applied.params.takeProfitPrice
    /\ applied.levels.sl_price = applied.params.stopLossPrice

\* C39: backfill only persists messages: for any number of backfilled messages
\* and any retries of the backfill loop, it makes no inference call, writes no
\* trade signal, creates or changes no SubmittedPosition row and places no
\* order.
C39_BackfillOnlyPersists ==
  [][ backfill' # backfill =>
        /\ trade_signals' = trade_signals
        /\ positions' = positions /\ next_id' = next_id
        /\ hlog' = hlog
        /\ call' = call /\ pc' = pc
        /\ accepted' = accepted /\ delivered' = delivered ]_vars

\* A backfill stored two messages after a retry and ended, next to the signal
\* and the position of an earlier run
C39_Witness ==
  /\ backfill.pc = "done" /\ backfill.attempts >= 1
  /\ Cardinality(messages) = 2
  /\ trade_signals = EarlierSignal
  /\ positions = EarlierRow

====
